---------------------------- MODULE Spec2Model ----------------------------
(***************************************************************************)
(* The repository store of the schemata editor (src/src/store/             *)
(* schema-store.ts) as a state machine.                                    *)
(*                                                                         *)
(* JavaScript objects are records/functions whose DOMAIN is the set of     *)
(* keys the object has; an optional key that is missing is not in the      *)
(* DOMAIN, and a key that is present with the value undefined holds        *)
(* Undefined.  A Map is a function, Map.set is Put and Map.delete is       *)
(* Without.  An object whose key order the code reads (manifest.versions,  *)
(* Object.keys(...)[0]) is an ordered object [keys, at].                   *)
(* Strings are strings: the cache key and the archive paths are built by   *)
(* concatenation exactly as the template literals build them.              *)
(***************************************************************************)
EXTENDS Naturals, Sequences, FiniteSets, TLC

VARIABLES
    contextRegistry,    \* ContextRegistry | null
    contextManifests,   \* Map<string, ContextManifest>
    schemas,            \* Map<string, SchemaDefinition>, keyed ctx@version/file
    activeContext,
    activeVersion,
    activeSchemaFile,   \* string | null
    activeFieldId,      \* string | null
    hasUnsavedChanges,
    isLoading,
    error,              \* string | null
    pending,            \* loadSchema calls suspended at their fetch
    archive,            \* the ZIP the last exportAsZip handed to saveAs
    boot,               \* the loadContextRegistry call and where it stands
    reader,             \* a reader's captured contextManifests map and what it shows
    sweep,              \* the loadAllSchemas call and where it stands
    last,               \* the call that produced this state, with its result
    steps               \* number of calls made so far

storeVars == <<contextRegistry, contextManifests, schemas, activeContext,
               activeVersion, activeSchemaFile, activeFieldId,
               hasUnsavedChanges, isLoading, error>>

vars == <<contextRegistry, contextManifests, schemas, activeContext,
          activeVersion, activeSchemaFile, activeFieldId,
          hasUnsavedChanges, isLoading, error, pending, archive, boot, reader,
          sweep, last, steps>>

---------------------------------------------------------------------------
\* Bounds of the exploration

MaxSteps == 3

---------------------------------------------------------------------------
\* JavaScript values

Null == "null"
Undefined == "undefined"
NullRegistry == [isNull |-> TRUE]
NoArchive == [isNull |-> TRUE]

\* a file's content: JSON text that parses to a value, or text that does not
Text(value) == [text |-> value]
Corrupt == [corrupt |-> TRUE]
Parses(content) == "text" \in DOMAIN content

\* the JSON null
NullValue == [isNull |-> TRUE]

\* data[k] is truthy: the key is there and its value is an object
HasObject(data, k) == k \in DOMAIN data /\ data[k] # NullValue

\* { ...o, ...u }
Merge(o, u) == [k \in DOMAIN o \cup DOMAIN u |-> IF k \in DOMAIN u THEN u[k] ELSE o[k]]

\* const { [k]: _, ...rest } = o   and   Map.delete(k)
Without(o, k) == [x \in DOMAIN o \ {k} |-> o[x]]

\* Map.set(k, v)   and   { ...o, [k]: v }
Put(m, k, v) == [x \in DOMAIN m \cup {k} |-> IF x = k THEN v ELSE m[x]]

EmptyMap == [x \in {} |-> Null]

\* Objects whose key order is observable: keys in insertion order
OHas(o, k) == k \in DOMAIN o.at
OSet(o, k, v) == [keys |-> IF k \in DOMAIN o.at THEN o.keys ELSE Append(o.keys, k),
                  at |-> Put(o.at, k, v)]
ODel(o, k) == [keys |-> SelectSeq(o.keys, LAMBDA x : x # k), at |-> Without(o.at, k)]

\* Array.prototype.includes
Includes(s, x) == \E i \in 1..Len(s) : s[i] = x

\* `${contextName}@${version}/${schemaFile}`
CacheKey(contextName, version, schemaFile) ==
    contextName \o "@" \o version \o "/" \o schemaFile

\* `/schemata/${contextEntry.path}/v${version}/${schemaFile}`
FetchPath(path, version, schemaFile) ==
    "/schemata/" \o path \o "/v" \o version \o "/" \o schemaFile

\* new Date().toISOString().split('T')[0]  and  new Date().toISOString()
Today == "2025-11-02"
NowIso == "2025-11-02T10:00:00.000Z"

---------------------------------------------------------------------------
\* The document store the fetch layer reads (public/schemata)

LrtId == "ccm:oeh_flex_lrt"
TitleId == "cclom:title"

EventConcept == [label |-> [de |-> "Ereignis", en |-> "Event"], icon |-> "event", schema_file |-> "event.json"]
PlainConcept == [label |-> [de |-> "x", en |-> "x"]]
NoIconConcept == [label |-> [de |-> "Person", en |-> "Person"], schema_file |-> "person.json"]
EmptyIconConcept == [label |-> [de |-> "y", en |-> "y"], icon |-> "", schema_file |-> "blank.json"]
EmptyFileConcept == [label |-> [de |-> "z", en |-> "z"], icon |-> "work", schema_file |-> ""]

LrtField == [id |-> LrtId, label |-> [de |-> "Inhaltstyp", en |-> "Content type"],
             system |-> [datatype |-> "uri",
                         vocabulary |-> [type |-> "closed",
                                         concepts |-> <<EventConcept, PlainConcept>>]]]
TitleField == [id |-> TitleId, group |-> "general", label |-> [de |-> "Titel", en |-> "Title"],
               system |-> [datatype |-> "string"]]

GeneralGroup == [id |-> "general", label |-> [de |-> "Allgemein", en |-> "General"]]

CoreDoc == [profileId |-> "core", version |-> "1.8.0",
            groups |-> <<GeneralGroup>>,
            fields |-> <<LrtField, TitleField>>]
EventDoc == [profileId |-> "type:event", version |-> "1.8.0",
             groups |-> <<GeneralGroup>>,
             fields |-> <<TitleField>>]

ServerFiles ==
    (FetchPath("default", "1.8.0", "core.json") :> CoreDoc) @@
    (FetchPath("default", "1.8.0", "event.json") :> EventDoc)

ServerRegistry ==
    [contexts |->
        ("default" :> [name |-> "WLO/OEH Standard", description |-> "Vollstaendiges Schema-Set",
                       defaultVersion |-> "1.8.0", path |-> "default"]) @@
        ("oer" :> [name |-> "OER", description |-> "Based on default",
                   defaultVersion |-> "1.0.0", path |-> "oer", basedOn |-> "default"]),
     defaultContext |-> "default"]

InitialChangelog == <<[date |-> "2025-11-01T00:00:00.000Z", type |-> "added",
                       description |-> "Initiale Version"]>>

ServerManifests ==
    ("default" :>
        [contextName |-> "default", name |-> "WLO/OEH Standard",
         versions |-> [keys |-> <<"1.8.0", "1.0.0">>,
                       at |-> ("1.8.0" :> [releaseDate |-> "2025-11-01", isDefault |-> TRUE,
                                           schemas |-> <<"core.json", "event.json">>,
                                           changelog |-> InitialChangelog]) @@
                              ("1.0.0" :> [releaseDate |-> "2024-01-01",
                                           schemas |-> <<"core.json">>])]]) @@
    ("oer" :>
        [contextName |-> "oer", name |-> "OER", basedOn |-> "default",
         versions |-> [keys |-> <<"1.0.0">>,
                       at |-> ("1.0.0" :> [releaseDate |-> "2025-06-01", isDefault |-> TRUE,
                                           schemas |-> <<"core.json">>])]])

---------------------------------------------------------------------------
\* loadContextRegistry.  boot.pc says where the call stands: "idle" before
\* it, "registry" while the registry fetch is in flight, "manifest" while
\* the manifest fetch for Head(boot.queue) at boot.path is in flight, "done"
\* after its end.  boot.requested, boot.fetched and boot.failed record the
\* manifest paths requested and the contexts whose fetch succeeded or failed.
BootIdle ==
    [pc |-> "idle", queue |-> <<>>, path |-> Null, registryOk |-> FALSE,
     requested |-> {}, fetched |-> {}, failed |-> {}]

\* `/schemata/${contextEntry.path}/manifest.json`
ManifestFetchPath(path) == "/schemata/" \o path \o "/manifest.json"

\* the call after it has fetched the registry and both manifests
BootDone ==
    [pc |-> "done", queue |-> <<>>, path |-> Null, registryOk |-> TRUE,
     requested |-> {ManifestFetchPath("default"), ManifestFetchPath("oer")},
     fetched |-> {"default", "oer"}, failed |-> {}]

\* no reader has captured anything
NoReader == [captured |-> FALSE]

\* no loadAllSchemas call has been made
SweepIdle == [pc |-> "idle", queue |-> <<>>]

\* Initial state: the registry and the manifests are loaded, the user has
\* opened core.json of default@1.8.0 and its fetch has completed.

Init ==
    /\ contextRegistry = ServerRegistry
    /\ contextManifests = ServerManifests
    /\ schemas = (CacheKey("default", "1.8.0", "core.json") :> CoreDoc)
    /\ activeContext = "default"
    /\ activeVersion = "1.8.0"
    /\ activeSchemaFile = "core.json"
    /\ activeFieldId = Null
    /\ hasUnsavedChanges = FALSE
    /\ isLoading = FALSE
    /\ error = Null
    /\ pending = {}
    /\ archive = NoArchive
    /\ boot = BootDone
    /\ reader = NoReader
    /\ sweep = SweepIdle
    /\ last = [op |-> "init"]
    /\ steps = 0

\* A reader holds the contextManifests map it captured.  The store keeps the
\* objects of a replaced map (spread and new Map copy references), so the
\* reader and the store share a version entry object until an operation puts
\* a new object in its place or drops it.  reader.shared are the entries
\* (context c, version v) still shared, reader.detached the contents the
\* others had when the store let go of them, reader.contextManifests the
\* contents at the capture.
EntriesOf(manifests) ==
    UNION { { [c |-> c, v |-> v] : v \in DOMAIN manifests[c].versions.at } : c \in DOMAIN manifests }

\* the contexts whose manifest call l replaces by a new object or removes
ReplacedContexts(l) ==
    CASE l.op = "createContext" ->
            IF contextRegistry = NullRegistry THEN {} ELSE {l.contextName}
      [] l.op = "deleteContext" ->
            IF l.contextName = "default" \/ contextRegistry = NullRegistry
            THEN {} ELSE {l.contextName}
      [] l.op = "importFromZip" ->
            IF l.result THEN DOMAIN contextManifests ELSE {}
      [] l.op = "importData" ->
            IF /\ Parses(l.jsonData)
               /\ l.jsonData.text # NullValue
               /\ HasObject(l.jsonData.text, "contexts")
               /\ \A c \in DOMAIN l.jsonData.text.contexts :
                      l.jsonData.text.contexts[c] # NullValue
            THEN { c \in DOMAIN l.jsonData.text.contexts :
                      HasObject(l.jsonData.text.contexts[c], "manifest.json") }
            ELSE {}
      [] OTHER -> {}

\* the version entries whose object call l replaces or removes; createSchema,
\* deleteSchema and addChangelogEntry assign into the entry they find and
\* replace none
ReplacedEntries(l) ==
    { p \in EntriesOf(contextManifests) : p.c \in ReplacedContexts(l) }
    \cup
    (IF /\ l.op \in {"createVersion", "deleteVersion"}
        /\ l.contextName \in DOMAIN contextManifests
        /\ l.op = "deleteVersion" =>
              Len(ODel(contextManifests[l.contextName].versions, l.version).keys) # 0
     THEN {[c |-> l.contextName, v |-> l.version]}
     ELSE {})

\* the reader once the store has let go of the entries `gone`
Detach(gone) ==
    IF ~reader.captured THEN reader
    ELSE LET lost == gone \cap reader.shared
         IN [reader EXCEPT
               !.shared = @ \ lost,
               !.detached = [p \in DOMAIN @ \cup lost |->
                               IF p \in lost
                               THEN contextManifests[p.c].versions.at[p.v]
                               ELSE @[p]]]

\* One call of a store operation
Call(l) ==
    /\ steps < MaxSteps
    /\ steps' = steps + 1
    /\ last' = l
    /\ reader' = Detach(ReplacedEntries(l))
    /\ UNCHANGED <<boot, sweep>>

---------------------------------------------------------------------------
\* Loading

\* loadSchema up to its await fetch(path)
LoadSchemaStart(contextName, version, schemaFile) ==
    IF contextRegistry = NullRegistry
    THEN /\ error' = "Context registry not loaded"
         /\ isLoading' = FALSE
         /\ UNCHANGED pending
    ELSE IF contextName \notin DOMAIN contextRegistry.contexts
    THEN /\ error' = "Context " \o contextName \o " not found"
         /\ isLoading' = FALSE
         /\ UNCHANGED pending
    ELSE /\ error' = Null
         /\ isLoading' = TRUE
         /\ pending' = pending \cup
                {[path |-> FetchPath(contextRegistry.contexts[contextName].path, version, schemaFile),
                  cacheKey |-> CacheKey(contextName, version, schemaFile),
                  schemaFile |-> schemaFile,
                  \* fetches for the same key that are already in flight
                  n |-> Cardinality({ q \in pending :
                                        q.cacheKey = CacheKey(contextName, version, schemaFile) })]}

\* loadSchema from the completion of its fetch to its end
\* Variant: the completion sets a map that holds the fetched document only
LoadSchemaCompleteAlone(p) ==
    /\ p \in pending
    /\ pending' = pending \ {p}
    /\ last' = [op |-> "loadSchemaComplete", cacheKey |-> p.cacheKey, n |-> p.n,
                ok |-> p.path \in DOMAIN ServerFiles]
    /\ UNCHANGED steps
    /\ isLoading' = FALSE
    /\ IF p.path \in DOMAIN ServerFiles
       THEN /\ schemas' = (p.cacheKey :> ServerFiles[p.path])
            /\ UNCHANGED error
       ELSE /\ error' = "Failed to load schema " \o p.schemaFile
            /\ UNCHANGED schemas
    /\ UNCHANGED <<contextRegistry, contextManifests, activeContext, activeVersion,
                   activeSchemaFile, activeFieldId, hasUnsavedChanges, archive, boot, reader,
                   sweep>>

LoadSchemaComplete(p) ==
    /\ p \in pending
    /\ pending' = pending \ {p}
    /\ last' = [op |-> "loadSchemaComplete", cacheKey |-> p.cacheKey, n |-> p.n,
                ok |-> p.path \in DOMAIN ServerFiles]
    /\ UNCHANGED steps
    /\ isLoading' = FALSE
    /\ IF p.path \in DOMAIN ServerFiles
       THEN /\ schemas' = Put(schemas, p.cacheKey, ServerFiles[p.path])
            /\ UNCHANGED error
       ELSE /\ error' = "Failed to load schema " \o p.schemaFile
            /\ UNCHANGED schemas
    /\ UNCHANGED <<contextRegistry, contextManifests, activeContext, activeVersion,
                   activeSchemaFile, activeFieldId, hasUnsavedChanges, archive, boot, reader,
                   sweep>>

\* Object.keys(registry.contexts): the server's registry names default first
ContextOrder == <<"default", "oer", "mds", "neu">>
ContextKeys(registry) == SelectSeq(ContextOrder, LAMBDA c : c \in DOMAIN registry.contexts)

\* loadContextManifest for the names of the queue up to its await fetch(...):
\* a name the registry does not have returns at once, the next one follows
RECURSIVE SkipUnknown(_, _)
SkipUnknown(queue, registry) ==
    IF queue = <<>> THEN <<>>
    ELSE IF registry # NullRegistry /\ Head(queue) \in DOMAIN registry.contexts
    THEN queue
    ELSE SkipUnknown(Tail(queue), registry)

\* the call after the names before `queue` are dealt with
BootAt(queue, registry, b) ==
    LET rest == SkipUnknown(queue, registry)
    IN IF rest = <<>>
       THEN [b EXCEPT !.pc = "done", !.queue = <<>>, !.path = Null]
       ELSE LET path == ManifestFetchPath(registry.contexts[Head(rest)].path)
            IN [b EXCEPT !.pc = "manifest", !.queue = rest, !.path = path,
                         !.requested = @ \cup {path}]

\* loadContextRegistry up to its await fetch(...)
LoadContextRegistry ==
    /\ boot.pc \in {"idle", "done"}
    /\ steps < MaxSteps
    /\ steps' = steps + 1
    /\ last' = [op |-> "loadContextRegistry"]
    /\ isLoading' = TRUE
    /\ error' = Null
    /\ boot' = [BootIdle EXCEPT !.pc = "registry"]
    /\ UNCHANGED <<contextRegistry, contextManifests, schemas, activeContext, activeVersion,
                   activeSchemaFile, activeFieldId, hasUnsavedChanges, pending, archive,
                   reader, sweep>>

\* the registry fetch ends: the registry is set and the first manifest is
\* requested, or the catch sets the error
RegistryFetched(ok) ==
    /\ boot.pc = "registry"
    /\ last' = [op |-> "registryFetched", ok |-> ok]
    /\ isLoading' = FALSE
    /\ IF ok
       THEN /\ contextRegistry' = ServerRegistry
            /\ boot' = BootAt(ContextKeys(ServerRegistry), ServerRegistry,
                              [boot EXCEPT !.registryOk = TRUE])
            /\ UNCHANGED error
       ELSE /\ error' = "Failed to load context registry"
            /\ boot' = [boot EXCEPT !.pc = "done"]
            /\ UNCHANGED contextRegistry
    /\ UNCHANGED <<contextManifests, schemas, activeContext, activeVersion, activeSchemaFile,
                   activeFieldId, hasUnsavedChanges, pending, archive, reader, sweep, steps>>

\* Variant: a failed manifest fetch is handled like a failed registry fetch
ManifestFetchedAborts(ok) ==
    /\ boot.pc = "manifest"
    /\ LET contextName == Head(boot.queue)
           served == { c \in DOMAIN ServerManifests :
                         ManifestFetchPath(ServerRegistry.contexts[c].path) = boot.path }
           success == ok /\ served # {}
       IN /\ last' = [op |-> "manifestFetched", contextName |-> contextName, ok |-> success]
          /\ contextManifests' =
                IF success
                THEN Put(contextManifests, contextName, ServerManifests[CHOOSE c \in served : TRUE])
                ELSE contextManifests
          /\ error' = IF success THEN error ELSE "Failed to load manifest for " \o contextName
          /\ boot' = IF success
                     THEN BootAt(Tail(boot.queue), contextRegistry,
                                 [boot EXCEPT !.fetched = @ \cup {contextName}])
                     ELSE [boot EXCEPT !.pc = "done", !.failed = @ \cup {contextName}]
          /\ reader' = Detach(IF success
                               THEN { p \in EntriesOf(contextManifests) : p.c = contextName }
                               ELSE {})
    /\ UNCHANGED <<contextRegistry, schemas, activeContext, activeVersion, activeSchemaFile,
                   activeFieldId, hasUnsavedChanges, isLoading, pending, archive, sweep, steps>>

\* the manifest fetch for Head(boot.queue) ends: the manifest is set, or the
\* catch logs a warning; the next manifest is requested
ManifestFetched(ok) ==
    /\ boot.pc = "manifest"
    /\ LET contextName == Head(boot.queue)
           served == { c \in DOMAIN ServerManifests :
                         ManifestFetchPath(ServerRegistry.contexts[c].path) = boot.path }
           success == ok /\ served # {}
       IN /\ last' = [op |-> "manifestFetched", contextName |-> contextName, ok |-> success]
          /\ contextManifests' =
                IF success
                THEN Put(contextManifests, contextName, ServerManifests[CHOOSE c \in served : TRUE])
                ELSE contextManifests
          /\ boot' = BootAt(Tail(boot.queue), contextRegistry,
                            IF success
                            THEN [boot EXCEPT !.fetched = @ \cup {contextName}]
                            ELSE [boot EXCEPT !.failed = @ \cup {contextName}])
          /\ reader' = Detach(IF success
                               THEN { p \in EntriesOf(contextManifests) : p.c = contextName }
                               ELSE {})
    /\ UNCHANGED <<contextRegistry, schemas, activeContext, activeVersion, activeSchemaFile,
                   activeFieldId, hasUnsavedChanges, isLoading, error, pending, archive, sweep,
                   steps>>

\* The state the store is created in
InitialState ==
    /\ contextRegistry = NullRegistry
    /\ contextManifests = EmptyMap
    /\ schemas = EmptyMap
    /\ activeContext = "default"
    /\ activeVersion = "1.8.0"
    /\ activeSchemaFile = Null
    /\ activeFieldId = Null
    /\ hasUnsavedChanges = FALSE
    /\ isLoading = FALSE
    /\ error = Null
    /\ pending = {}
    /\ archive = NoArchive
    /\ boot = BootIdle
    /\ reader = NoReader
    /\ sweep = SweepIdle
    /\ last = [op |-> "init"]
    /\ steps = 0

---------------------------------------------------------------------------
\* Navigation

SetActiveContext(contextName) ==
    /\ Call([op |-> "setActiveContext", contextName |-> contextName])
    /\ IF contextRegistry # NullRegistry /\ contextName \in DOMAIN contextRegistry.contexts
       THEN /\ activeContext' = contextName
            /\ activeVersion' = contextRegistry.contexts[contextName].defaultVersion
            /\ activeSchemaFile' = Null
            /\ activeFieldId' = Null
       ELSE UNCHANGED <<activeContext, activeVersion, activeSchemaFile, activeFieldId>>
    /\ UNCHANGED <<contextRegistry, contextManifests, schemas, hasUnsavedChanges,
                   isLoading, error, pending, archive>>

\* Variant: setActiveVersion that resets the schema cursor only
SetActiveVersionKeepField(version) ==
    /\ Call([op |-> "setActiveVersion", version |-> version])
    /\ activeVersion' = version
    /\ activeSchemaFile' = Null
    /\ UNCHANGED <<contextRegistry, contextManifests, schemas, activeContext, activeFieldId,
                   hasUnsavedChanges, isLoading, error, pending, archive>>

SetActiveVersion(version) ==
    /\ Call([op |-> "setActiveVersion", version |-> version])
    /\ activeVersion' = version
    /\ activeSchemaFile' = Null
    /\ activeFieldId' = Null
    /\ UNCHANGED <<contextRegistry, contextManifests, schemas, activeContext,
                   hasUnsavedChanges, isLoading, error, pending, archive>>

SetActiveSchema(schemaFile) ==
    /\ Call([op |-> "setActiveSchema", schemaFile |-> schemaFile])
    /\ activeSchemaFile' = schemaFile
    /\ activeFieldId' = Null
    /\ IF schemaFile # Null /\ schemaFile # ""
       THEN LoadSchemaStart(activeContext, activeVersion, schemaFile)
       ELSE UNCHANGED <<error, isLoading, pending>>
    /\ UNCHANGED <<contextRegistry, contextManifests, schemas, activeContext,
                   activeVersion, hasUnsavedChanges, archive>>

SetActiveField(fieldId) ==
    /\ Call([op |-> "setActiveField", fieldId |-> fieldId])
    /\ activeFieldId' = fieldId
    /\ UNCHANGED <<contextRegistry, contextManifests, schemas, activeContext,
                   activeVersion, activeSchemaFile, hasUnsavedChanges, isLoading,
                   error, pending, archive>>

---------------------------------------------------------------------------
\* Context management

NewContextEntry(contextName, displayName, basedOn) ==
    [name |-> displayName,
     description |-> IF basedOn = Undefined \/ basedOn = "" THEN "" ELSE "Based on " \o basedOn,
     defaultVersion |-> "1.0.0",
     path |-> contextName,
     basedOn |-> basedOn]

\* Variant: the manifest of a new context lists core.json whatever was selected
NewContextManifestCoreOnly(contextName, displayName, basedOn, selectedSchemas) ==
    [contextName |-> contextName,
     name |-> displayName,
     basedOn |-> basedOn,
     versions |-> [keys |-> <<"1.0.0">>,
                   at |-> ("1.0.0" :> [releaseDate |-> Today,
                                       isDefault |-> TRUE,
                                       schemas |-> <<"core.json">>])]]

\* selectedSchemas is Undefined when the argument is omitted
NewContextManifest(contextName, displayName, basedOn, selectedSchemas) ==
    [contextName |-> contextName,
     name |-> displayName,
     basedOn |-> basedOn,
     versions |-> [keys |-> <<"1.0.0">>,
                   at |-> ("1.0.0" :> [releaseDate |-> Today,
                                       isDefault |-> TRUE,
                                       schemas |-> IF selectedSchemas = <<Undefined>>
                                                   THEN <<"core.json">>
                                                   ELSE selectedSchemas])]]

CreateContext(contextName, displayName, basedOn, selectedSchemas) ==
    /\ Call([op |-> "createContext", contextName |-> contextName, basedOn |-> basedOn,
             selectedSchemas |-> selectedSchemas])
    /\ IF contextRegistry = NullRegistry
       THEN UNCHANGED <<contextRegistry, contextManifests, hasUnsavedChanges>>
       ELSE /\ contextRegistry' =
                Merge(contextRegistry,
                      [contexts |-> Put(contextRegistry.contexts, contextName,
                                        NewContextEntry(contextName, displayName, basedOn))])
            /\ contextManifests' =
                Put(contextManifests, contextName,
                    NewContextManifest(contextName, displayName, basedOn, selectedSchemas))
            /\ hasUnsavedChanges' = TRUE
    /\ UNCHANGED <<schemas, activeContext, activeVersion, activeSchemaFile, activeFieldId,
                   isLoading, error, pending, archive>>

\* Variant: deleteContext that resets all four cursors
DeleteContextResetsCursors(contextName) ==
    /\ Call([op |-> "deleteContext", contextName |-> contextName])
    /\ IF contextName = "default"
       THEN /\ error' = "Cannot delete default context"
            /\ UNCHANGED <<contextRegistry, contextManifests, activeContext, activeVersion,
                           activeSchemaFile, activeFieldId, hasUnsavedChanges>>
       ELSE IF contextRegistry = NullRegistry
       THEN UNCHANGED <<contextRegistry, contextManifests, activeContext, activeVersion,
                        activeSchemaFile, activeFieldId, hasUnsavedChanges, error>>
       ELSE /\ contextRegistry' =
                Merge(contextRegistry,
                      [contexts |-> Without(contextRegistry.contexts, contextName)])
            /\ contextManifests' = Without(contextManifests, contextName)
            /\ activeContext' = "default"
            /\ activeVersion' = "1.8.0"
            /\ activeSchemaFile' = Null
            /\ activeFieldId' = Null
            /\ hasUnsavedChanges' = TRUE
            /\ UNCHANGED error
    /\ UNCHANGED <<schemas, isLoading, pending, archive>>

\* Variant: deleteContext without the check for 'default'
DeleteContextUnguarded(contextName) ==
    /\ Call([op |-> "deleteContext", contextName |-> contextName])
    /\ IF contextRegistry = NullRegistry
       THEN UNCHANGED <<contextRegistry, contextManifests, activeContext, hasUnsavedChanges>>
       ELSE /\ contextRegistry' =
                Merge(contextRegistry,
                      [contexts |-> Without(contextRegistry.contexts, contextName)])
            /\ contextManifests' = Without(contextManifests, contextName)
            /\ activeContext' = "default"
            /\ hasUnsavedChanges' = TRUE
    /\ UNCHANGED <<schemas, activeVersion, activeSchemaFile, activeFieldId,
                   isLoading, error, pending, archive>>

DeleteContext(contextName) ==
    /\ Call([op |-> "deleteContext", contextName |-> contextName])
    /\ IF contextName = "default"
       THEN /\ error' = "Cannot delete default context"
            /\ UNCHANGED <<contextRegistry, contextManifests, activeContext, hasUnsavedChanges>>
       ELSE IF contextRegistry = NullRegistry
       THEN UNCHANGED <<contextRegistry, contextManifests, activeContext, hasUnsavedChanges, error>>
       ELSE /\ contextRegistry' =
                Merge(contextRegistry,
                      [contexts |-> Without(contextRegistry.contexts, contextName)])
            /\ contextManifests' = Without(contextManifests, contextName)
            /\ activeContext' = "default"
            /\ hasUnsavedChanges' = TRUE
            /\ UNCHANGED error
    /\ UNCHANGED <<schemas, activeVersion, activeSchemaFile, activeFieldId,
                   isLoading, pending, archive>>

---------------------------------------------------------------------------
\* JSON.  JSON.stringify writes an object's keys in order and leaves out a
\* key whose value is undefined; JSON.parse returns what was written.  The
\* text of a file is represented by the value it parses to.

DropUndefined(o, k) == IF k \in DOMAIN o /\ o[k] = Undefined THEN Without(o, k) ELSE o

JsonField(f) == DropUndefined(f, "group")
JsonSchema(schema) == Merge(schema, [fields |-> [i \in 1..Len(schema.fields) |-> JsonField(schema.fields[i])]])
JsonManifest(manifest) == DropUndefined(manifest, "basedOn")
JsonRegistry(registry) ==
    Merge(registry,
          [contexts |-> [c \in DOMAIN registry.contexts |->
                            DropUndefined(registry.contexts[c], "basedOn")]])

---------------------------------------------------------------------------
\* Version management

\* basedOnVersion || Object.keys(manifest.versions)[0]
BaseVersion(manifest, basedOnVersion) ==
    IF basedOnVersion # Undefined /\ basedOnVersion # ""
    THEN basedOnVersion
    ELSE IF manifest.versions.keys = <<>> THEN Undefined ELSE Head(manifest.versions.keys)

\* manifest.versions[baseVersion]?.schemas || ['core.json']
BaseSchemas(manifest, baseVersion) ==
    IF OHas(manifest.versions, baseVersion)
    THEN manifest.versions.at[baseVersion].schemas
    ELSE <<"core.json">>

\* JSON.parse(JSON.stringify(baseSchema)) with version overwritten
StampedCopy(baseSchema, version) == Merge(JsonSchema(baseSchema), [version |-> version])

\* baseSchemas.forEach(...) over the copy of the cache
RECURSIVE CopySchemas(_, _, _, _, _)
CopySchemas(cache, contextName, baseVersion, version, baseSchemas) ==
    IF baseSchemas = <<>> THEN cache
    ELSE LET baseCacheKey == CacheKey(contextName, baseVersion, Head(baseSchemas))
             newCacheKey == CacheKey(contextName, version, Head(baseSchemas))
             next == IF baseCacheKey \in DOMAIN cache
                     THEN Put(cache, newCacheKey, StampedCopy(cache[baseCacheKey], version))
                     ELSE cache
         IN CopySchemas(next, contextName, baseVersion, version, Tail(baseSchemas))

NewVersionEntry(version, baseVersion, baseSchemas) ==
    [releaseDate |-> Today,
     isDefault |-> FALSE,
     schemas |-> baseSchemas,
     changelog |-> <<[date |-> NowIso, type |-> "added",
                      description |-> "Version " \o version \o " erstellt basierend auf "
                                      \o baseVersion]>>]

CreateVersion(contextName, version, basedOnVersion) ==
    /\ Call([op |-> "createVersion", contextName |-> contextName, version |-> version,
             basedOnVersion |-> basedOnVersion])
    /\ IF contextName \notin DOMAIN contextManifests
       THEN UNCHANGED <<contextManifests, schemas, hasUnsavedChanges>>
       ELSE LET manifest == contextManifests[contextName]
                baseVersion == BaseVersion(manifest, basedOnVersion)
                baseSchemas == BaseSchemas(manifest, baseVersion)
            IN /\ schemas' = CopySchemas(schemas, contextName, baseVersion, version, baseSchemas)
               /\ contextManifests' =
                    Put(contextManifests, contextName,
                        Merge(manifest,
                              [versions |-> OSet(manifest.versions, version,
                                                 NewVersionEntry(version, baseVersion, baseSchemas))]))
               /\ hasUnsavedChanges' = TRUE
    /\ UNCHANGED <<contextRegistry, activeContext, activeVersion, activeSchemaFile,
                   activeFieldId, isLoading, error, pending, archive>>

\* Variant: deleteVersion without the check for the last version
DeleteVersionUnguarded(contextName, version) ==
    /\ Call([op |-> "deleteVersion", contextName |-> contextName, version |-> version])
    /\ IF contextName \notin DOMAIN contextManifests
       THEN UNCHANGED <<contextManifests, hasUnsavedChanges>>
       ELSE /\ contextManifests' =
                Put(contextManifests, contextName,
                    Merge(contextManifests[contextName],
                          [versions |-> ODel(contextManifests[contextName].versions, version)]))
            /\ hasUnsavedChanges' = TRUE
    /\ UNCHANGED <<contextRegistry, schemas, activeContext, activeVersion, activeSchemaFile,
                   activeFieldId, isLoading, error, pending, archive>>

DeleteVersion(contextName, version) ==
    /\ Call([op |-> "deleteVersion", contextName |-> contextName, version |-> version])
    /\ IF contextName \notin DOMAIN contextManifests
       THEN UNCHANGED <<contextManifests, hasUnsavedChanges, error>>
       ELSE LET manifest == contextManifests[contextName]
                remainingVersions == ODel(manifest.versions, version)
            IN IF Len(remainingVersions.keys) = 0
               THEN /\ error' = "Kann letzte Version nicht loeschen"
                    /\ UNCHANGED <<contextManifests, hasUnsavedChanges>>
               ELSE /\ contextManifests' =
                        Put(contextManifests, contextName,
                            Merge(manifest, [versions |-> remainingVersions]))
                    /\ hasUnsavedChanges' = TRUE
                    /\ UNCHANGED error
    /\ UNCHANGED <<contextRegistry, schemas, activeContext, activeVersion, activeSchemaFile,
                   activeFieldId, isLoading, pending, archive>>

---------------------------------------------------------------------------
\* Schema management

MarkUnsaved == hasUnsavedChanges' = TRUE

NewSchema(profileId, version) ==
    [profileId |-> profileId,
     version |-> version,
     context |-> [schema |-> "https://schema.org/"],     \* the '@context' key
     groups |-> <<GeneralGroup>>,
     fields |-> <<>>]

\* manifest with versions[version].schemas replaced
WithSchemaList(manifest, version, list) ==
    Merge(manifest,
          [versions |-> OSet(manifest.versions, version,
                             Merge(manifest.versions.at[version], [schemas |-> list]))])

CreateSchema(schemaFile, profileId, displayName) ==
    /\ Call([op |-> "createSchema", schemaFile |-> schemaFile,
             before |-> [schemas |-> schemas, contextManifests |-> contextManifests]])
    /\ schemas' = Put(schemas, CacheKey(activeContext, activeVersion, schemaFile),
                      NewSchema(profileId, activeVersion))
    /\ IF /\ activeContext \in DOMAIN contextManifests
          /\ OHas(contextManifests[activeContext].versions, activeVersion)
          /\ ~Includes(contextManifests[activeContext].versions.at[activeVersion].schemas, schemaFile)
       THEN contextManifests' =
                Put(contextManifests, activeContext,
                    WithSchemaList(contextManifests[activeContext], activeVersion,
                        Append(contextManifests[activeContext].versions.at[activeVersion].schemas,
                               schemaFile)))
       ELSE UNCHANGED contextManifests
    /\ activeSchemaFile' = schemaFile
    /\ MarkUnsaved
    /\ UNCHANGED <<contextRegistry, activeContext, activeVersion, activeFieldId,
                   isLoading, error, pending, archive>>

\* variant: deleteSchema that removes the document and leaves the schemas list
DeleteSchemaKeepsList(schemaFile) ==
    /\ Call([op |-> "deleteSchema", schemaFile |-> schemaFile, undoes |-> FALSE])
    /\ schemas' = Without(schemas, CacheKey(activeContext, activeVersion, schemaFile))
    /\ activeSchemaFile' = Null
    /\ activeFieldId' = Null
    /\ MarkUnsaved
    /\ UNCHANGED <<contextRegistry, contextManifests, activeContext, activeVersion,
                   isLoading, error, pending, archive>>

\* the call before was createSchema(schemaFile), made when the file was
\* neither cached under the active key nor listed in the active version
FollowsCreateSchema(schemaFile) ==
    /\ last.op = "createSchema"
    /\ last.schemaFile = schemaFile
    /\ CacheKey(activeContext, activeVersion, schemaFile) \notin DOMAIN last.before.schemas
    /\ ~ /\ activeContext \in DOMAIN last.before.contextManifests
         /\ OHas(last.before.contextManifests[activeContext].versions, activeVersion)
         /\ Includes(last.before.contextManifests[activeContext].versions.at[activeVersion].schemas,
                     schemaFile)

DeleteSchema(schemaFile) ==
    /\ Call([op |-> "deleteSchema", schemaFile |-> schemaFile,
             undoes |-> FollowsCreateSchema(schemaFile)])
    /\ schemas' = Without(schemas, CacheKey(activeContext, activeVersion, schemaFile))
    /\ IF /\ activeContext \in DOMAIN contextManifests
          /\ OHas(contextManifests[activeContext].versions, activeVersion)
       THEN contextManifests' =
                Put(contextManifests, activeContext,
                    WithSchemaList(contextManifests[activeContext], activeVersion,
                        SelectSeq(contextManifests[activeContext].versions.at[activeVersion].schemas,
                                  LAMBDA s : s # schemaFile)))
       ELSE UNCHANGED contextManifests
    /\ activeSchemaFile' = Null
    /\ activeFieldId' = Null
    /\ MarkUnsaved
    /\ UNCHANGED <<contextRegistry, activeContext, activeVersion,
                   isLoading, error, pending, archive>>

\* The part the document operations share: look the document up under the
\* active context and version, return when it is not cached, else replace it
\* by the updated document in a copy of the map and mark the store unsaved.
ActiveKey(schemaFile) == CacheKey(activeContext, activeVersion, schemaFile)

ReplaceSchema(cacheKey, updatedSchema) ==
    /\ schemas' = Put(schemas, cacheKey, updatedSchema)
    /\ MarkUnsaved

UpdateSchema(schemaFile, updates) ==
    /\ Call([op |-> "updateSchema", schemaFile |-> schemaFile])
    /\ IF ActiveKey(schemaFile) \notin DOMAIN schemas
       THEN UNCHANGED <<schemas, hasUnsavedChanges>>
       ELSE ReplaceSchema(ActiveKey(schemaFile), Merge(schemas[ActiveKey(schemaFile)], updates))
    /\ UNCHANGED <<contextRegistry, contextManifests, activeContext, activeVersion,
                   activeSchemaFile, activeFieldId, isLoading, error, pending, archive>>

---------------------------------------------------------------------------
\* Field management

\* Variant: addField that moves the field cursor before it looks for the document
AddFieldSetsCursor(schemaFile, field) ==
    /\ Call([op |-> "addField", schemaFile |-> schemaFile, field |-> field])
    /\ activeFieldId' = field.id
    /\ IF ActiveKey(schemaFile) \notin DOMAIN schemas
       THEN UNCHANGED <<schemas, hasUnsavedChanges>>
       ELSE ReplaceSchema(ActiveKey(schemaFile),
                          Merge(schemas[ActiveKey(schemaFile)],
                                [fields |-> Append(schemas[ActiveKey(schemaFile)].fields, field)]))
    /\ UNCHANGED <<contextRegistry, contextManifests, activeContext, activeVersion,
                   activeSchemaFile, isLoading, error, pending, archive>>

AddField(schemaFile, field) ==
    /\ Call([op |-> "addField", schemaFile |-> schemaFile, field |-> field])
    /\ IF ActiveKey(schemaFile) \notin DOMAIN schemas
       THEN UNCHANGED <<schemas, hasUnsavedChanges, activeFieldId>>
       ELSE LET schema == schemas[ActiveKey(schemaFile)]
            IN /\ ReplaceSchema(ActiveKey(schemaFile),
                                Merge(schema, [fields |-> Append(schema.fields, field)]))
               /\ activeFieldId' = field.id
    /\ UNCHANGED <<contextRegistry, contextManifests, activeContext, activeVersion,
                   activeSchemaFile, isLoading, error, pending, archive>>

\* Variant: the update's system object is merged into the field's
UpdateFieldDeep(schemaFile, fieldId, updates) ==
    /\ Call([op |-> "updateField", schemaFile |-> schemaFile, fieldId |-> fieldId,
             updates |-> updates])
    /\ IF ActiveKey(schemaFile) \notin DOMAIN schemas
       THEN UNCHANGED <<schemas, hasUnsavedChanges>>
       ELSE LET schema == schemas[ActiveKey(schemaFile)]
                Upd(f) == IF f.id # fieldId THEN f
                          ELSE IF "system" \in DOMAIN updates
                          THEN Merge(Merge(f, updates),
                                     [system |-> Merge(f.system, updates.system)])
                          ELSE Merge(f, updates)
            IN ReplaceSchema(ActiveKey(schemaFile),
                             Merge(schema, [fields |-> [i \in 1..Len(schema.fields) |->
                                                        Upd(schema.fields[i])]]))
    /\ UNCHANGED <<contextRegistry, contextManifests, activeContext, activeVersion,
                   activeSchemaFile, activeFieldId, isLoading, error, pending, archive>>

UpdateField(schemaFile, fieldId, updates) ==
    /\ Call([op |-> "updateField", schemaFile |-> schemaFile, fieldId |-> fieldId,
             updates |-> updates])
    /\ IF ActiveKey(schemaFile) \notin DOMAIN schemas
       THEN UNCHANGED <<schemas, hasUnsavedChanges>>
       ELSE LET schema == schemas[ActiveKey(schemaFile)]
                Upd(f) == IF f.id = fieldId THEN Merge(f, updates) ELSE f
            IN ReplaceSchema(ActiveKey(schemaFile),
                             Merge(schema, [fields |-> [i \in 1..Len(schema.fields) |->
                                                        Upd(schema.fields[i])]]))
    /\ UNCHANGED <<contextRegistry, contextManifests, activeContext, activeVersion,
                   activeSchemaFile, activeFieldId, isLoading, error, pending, archive>>

DeleteField(schemaFile, fieldId) ==
    /\ Call([op |-> "deleteField", schemaFile |-> schemaFile, fieldId |-> fieldId])
    /\ IF ActiveKey(schemaFile) \notin DOMAIN schemas
       THEN UNCHANGED <<schemas, hasUnsavedChanges, activeFieldId>>
       ELSE LET schema == schemas[ActiveKey(schemaFile)]
            IN /\ ReplaceSchema(ActiveKey(schemaFile),
                                Merge(schema, [fields |-> SelectSeq(schema.fields,
                                                                    LAMBDA f : f.id # fieldId)]))
               /\ activeFieldId' = Null
    /\ UNCHANGED <<contextRegistry, contextManifests, activeContext, activeVersion,
                   activeSchemaFile, isLoading, error, pending, archive>>

\* fields.findIndex(f => f.id === fieldId), 1-based, 0 when there is none
RECURSIVE FindIndexFrom(_, _, _)
FindIndexFrom(fields, fieldId, i) ==
    IF i > Len(fields) THEN 0
    ELSE IF fields[i].id = fieldId THEN i
    ELSE FindIndexFrom(fields, fieldId, i + 1)
FindIndex(fields, fieldId) == FindIndexFrom(fields, fieldId, 1)

\* s.splice(i, 1) for a 1-based i, and s.splice(newIndex, 0, x) for a 0-based newIndex >= 0
RemoveAt(s, i) == SubSeq(s, 1, i - 1) \o SubSeq(s, i + 1, Len(s))
InsertAt(s, newIndex, x) ==
    LET n == IF newIndex > Len(s) THEN Len(s) ELSE newIndex
    IN SubSeq(s, 1, n) \o <<x>> \o SubSeq(s, n + 1, Len(s))

MoveField(schemaFile, fieldId, newIndex) ==
    /\ Call([op |-> "moveField", schemaFile |-> schemaFile, fieldId |-> fieldId,
             newIndex |-> newIndex])
    /\ IF ActiveKey(schemaFile) \notin DOMAIN schemas
       THEN UNCHANGED <<schemas, hasUnsavedChanges>>
       ELSE LET schema == schemas[ActiveKey(schemaFile)]
                currentIndex == FindIndex(schema.fields, fieldId)
            IN IF currentIndex = 0
               THEN UNCHANGED <<schemas, hasUnsavedChanges>>
               ELSE ReplaceSchema(ActiveKey(schemaFile),
                        Merge(schema,
                              [fields |-> InsertAt(RemoveAt(schema.fields, currentIndex),
                                                   newIndex, schema.fields[currentIndex])]))
    /\ UNCHANGED <<contextRegistry, contextManifests, activeContext, activeVersion,
                   activeSchemaFile, activeFieldId, isLoading, error, pending, archive>>

---------------------------------------------------------------------------
\* Group management

AddGroup(schemaFile, group) ==
    /\ Call([op |-> "addGroup", schemaFile |-> schemaFile, group |-> group])
    /\ IF ActiveKey(schemaFile) \notin DOMAIN schemas
       THEN UNCHANGED <<schemas, hasUnsavedChanges>>
       ELSE LET schema == schemas[ActiveKey(schemaFile)]
            IN ReplaceSchema(ActiveKey(schemaFile),
                             Merge(schema, [groups |-> Append(schema.groups, group)]))
    /\ UNCHANGED <<contextRegistry, contextManifests, activeContext, activeVersion,
                   activeSchemaFile, activeFieldId, isLoading, error, pending, archive>>

UpdateGroup(schemaFile, groupId, updates) ==
    /\ Call([op |-> "updateGroup", schemaFile |-> schemaFile, groupId |-> groupId,
             updates |-> updates])
    /\ IF ActiveKey(schemaFile) \notin DOMAIN schemas
       THEN UNCHANGED <<schemas, hasUnsavedChanges>>
       ELSE LET schema == schemas[ActiveKey(schemaFile)]
                Upd(g) == IF g.id = groupId THEN Merge(g, updates) ELSE g
            IN ReplaceSchema(ActiveKey(schemaFile),
                             Merge(schema, [groups |-> [i \in 1..Len(schema.groups) |->
                                                        Upd(schema.groups[i])]]))
    /\ UNCHANGED <<contextRegistry, contextManifests, activeContext, activeVersion,
                   activeSchemaFile, activeFieldId, isLoading, error, pending, archive>>

\* f.group === groupId
FieldInGroup(f, groupId) == "group" \in DOMAIN f /\ f.group = groupId

\* Variant: deleteGroup that leaves the fields as they are
KeepGroupReferences(fields, groupId) == fields

\* schema.fields.map(f => f.group === groupId ? { ...f, group: undefined } : f)
UnassignGroup(fields, groupId) ==
    LET Clear(f) == IF FieldInGroup(f, groupId) THEN Merge(f, [group |-> Undefined]) ELSE f
    IN [i \in 1..Len(fields) |-> Clear(fields[i])]

DeleteGroup(schemaFile, groupId) ==
    /\ Call([op |-> "deleteGroup", schemaFile |-> schemaFile, groupId |-> groupId])
    /\ IF ActiveKey(schemaFile) \notin DOMAIN schemas
       THEN UNCHANGED <<schemas, hasUnsavedChanges>>
       ELSE LET schema == schemas[ActiveKey(schemaFile)]
            IN ReplaceSchema(ActiveKey(schemaFile),
                   Merge(schema,
                         [groups |-> SelectSeq(schema.groups, LAMBDA g : g.id # groupId),
                          fields |-> UnassignGroup(schema.fields, groupId)]))
    /\ UNCHANGED <<contextRegistry, contextManifests, activeContext, activeVersion,
                   activeSchemaFile, activeFieldId, isLoading, error, pending, archive>>

---------------------------------------------------------------------------
\* Content types

\* schema.fields.find(f => f.id === 'ccm:oeh_flex_lrt')?.system?.vocabulary?.concepts
HasConcepts(schema) ==
    LET i == FindIndex(schema.fields, LrtId)
    IN /\ i # 0
       /\ "system" \in DOMAIN schema.fields[i]
       /\ "vocabulary" \in DOMAIN schema.fields[i].system
       /\ "concepts" \in DOMAIN schema.fields[i].system.vocabulary

\* a string-valued optional key is truthy: present, not undefined, not ''
Truthy(o, k) == k \in DOMAIN o /\ o[k] # Undefined /\ o[k] # ""

\* Variant: icon ?? 'article', which keeps an empty icon
ProjectConceptNullish(c) ==
    [label |-> c.label,
     icon |-> IF "icon" \in DOMAIN c /\ c.icon # Undefined THEN c.icon ELSE "article",
     schema_file |-> c.schema_file]

\* the projection .filter(c => c.schema_file).map(c => ({label, icon: c.icon || 'article', schema_file}))
ProjectConcept(c) ==
    [label |-> c.label,
     icon |-> IF Truthy(c, "icon") THEN c.icon ELSE "article",
     schema_file |-> c.schema_file]

ContentTypesOf(cache, contextName, version) ==
    LET cacheKey == CacheKey(contextName, version, "core.json")
    IN IF cacheKey \notin DOMAIN cache THEN <<>>
       ELSE IF ~HasConcepts(cache[cacheKey]) THEN <<>>
       ELSE LET field == cache[cacheKey].fields[FindIndex(cache[cacheKey].fields, LrtId)]
                withFile == SelectSeq(field.system.vocabulary.concepts,
                                      LAMBDA c : Truthy(c, "schema_file"))
            IN [i \in 1..Len(withFile) |-> ProjectConcept(withFile[i])]

GetContentTypes ==
    /\ Call([op |-> "getContentTypes",
             result |-> ContentTypesOf(schemas, activeContext, activeVersion)])
    /\ UNCHANGED <<contextRegistry, contextManifests, schemas, activeContext, activeVersion,
                   activeSchemaFile, activeFieldId, hasUnsavedChanges, isLoading, error,
                   pending, archive>>

\* the document with the concepts of its first ccm:oeh_flex_lrt field replaced
WithConcepts(schema, concepts) ==
    LET fieldIndex == FindIndex(schema.fields, LrtId)
        field == schema.fields[fieldIndex]
        updatedField ==
            Merge(field,
                  [system |-> Merge(field.system,
                                    [vocabulary |-> Merge(field.system.vocabulary,
                                                          [concepts |-> concepts])])])
    IN Merge(schema, [fields |-> [schema.fields EXCEPT ![fieldIndex] = updatedField]])

\* fieldIndex !== -1 and field.system.vocabulary is set
HasVocabulary(schema) ==
    LET i == FindIndex(schema.fields, LrtId)
    IN i # 0 /\ "vocabulary" \in DOMAIN schema.fields[i].system

\* variant: the new concept is put in front of the vocabulary's concepts
AddContentTypeInFront(contentType) ==
    /\ Call([op |-> "addContentType", contentType |-> contentType,
             previous |-> ContentTypesOf(schemas, activeContext, activeVersion)])
    /\ LET cacheKey == ActiveKey("core.json")
       IN IF cacheKey \notin DOMAIN schemas
          THEN UNCHANGED <<schemas, hasUnsavedChanges>>
          ELSE IF ~HasVocabulary(schemas[cacheKey])
          THEN UNCHANGED <<schemas, hasUnsavedChanges>>
          ELSE LET schema == schemas[cacheKey]
                   field == schema.fields[FindIndex(schema.fields, LrtId)]
                   newConcept == [label |-> contentType.label, icon |-> contentType.icon,
                                  schema_file |-> contentType.schema_file]
               IN ReplaceSchema(cacheKey,
                      WithConcepts(schema, <<newConcept>> \o field.system.vocabulary.concepts))
    /\ UNCHANGED <<contextRegistry, contextManifests, activeContext, activeVersion,
                   activeSchemaFile, activeFieldId, isLoading, error, pending, archive>>

\* `previous` in the call record is what getContentTypes() returned before the call
AddContentType(contentType) ==
    /\ Call([op |-> "addContentType", contentType |-> contentType,
             previous |-> ContentTypesOf(schemas, activeContext, activeVersion)])
    /\ LET cacheKey == ActiveKey("core.json")
       IN IF cacheKey \notin DOMAIN schemas
          THEN UNCHANGED <<schemas, hasUnsavedChanges>>
          ELSE IF ~HasVocabulary(schemas[cacheKey])
          THEN UNCHANGED <<schemas, hasUnsavedChanges>>
          ELSE LET schema == schemas[cacheKey]
                   field == schema.fields[FindIndex(schema.fields, LrtId)]
                   newConcept == [label |-> contentType.label, icon |-> contentType.icon,
                                  schema_file |-> contentType.schema_file]
               IN ReplaceSchema(cacheKey,
                      WithConcepts(schema, Append(field.system.vocabulary.concepts, newConcept)))
    /\ UNCHANGED <<contextRegistry, contextManifests, activeContext, activeVersion,
                   activeSchemaFile, activeFieldId, isLoading, error, pending, archive>>

RemoveContentType(schemaFile) ==
    /\ Call([op |-> "removeContentType", schemaFile |-> schemaFile,
             previous |-> ContentTypesOf(schemas, activeContext, activeVersion)])
    /\ LET cacheKey == ActiveKey("core.json")
       IN IF cacheKey \notin DOMAIN schemas
          THEN UNCHANGED <<schemas, hasUnsavedChanges>>
          ELSE IF ~HasVocabulary(schemas[cacheKey])
          THEN UNCHANGED <<schemas, hasUnsavedChanges>>
          ELSE LET schema == schemas[cacheKey]
                   field == schema.fields[FindIndex(schema.fields, LrtId)]
                   Keeps(c) == ~("schema_file" \in DOMAIN c /\ c.schema_file = schemaFile)
               IN ReplaceSchema(cacheKey,
                      WithConcepts(schema, SelectSeq(field.system.vocabulary.concepts, Keeps)))
    /\ UNCHANGED <<contextRegistry, contextManifests, activeContext, activeVersion,
                   activeSchemaFile, activeFieldId, isLoading, error, pending, archive>>

---------------------------------------------------------------------------
\* Changelog

AddChangelogEntry(contextName, version, entry) ==
    /\ Call([op |-> "addChangelogEntry", contextName |-> contextName, version |-> version])
    /\ IF contextName \notin DOMAIN contextManifests
       THEN UNCHANGED contextManifests
       ELSE IF ~OHas(contextManifests[contextName].versions, version)
       THEN UNCHANGED contextManifests
       ELSE LET manifest == contextManifests[contextName]
                versionEntry == manifest.versions.at[version]
                changelog == IF "changelog" \in DOMAIN versionEntry
                             THEN versionEntry.changelog ELSE <<>>
            IN contextManifests' =
                 Put(contextManifests, contextName,
                     Merge(manifest,
                           [versions |-> OSet(manifest.versions, version,
                                              Merge(versionEntry,
                                                    [changelog |-> <<entry>> \o changelog]))]))
    /\ UNCHANGED <<contextRegistry, schemas, activeContext, activeVersion, activeSchemaFile,
                   activeFieldId, hasUnsavedChanges, isLoading, error, pending, archive>>

---------------------------------------------------------------------------
\* Save / export

\* every (contextName, version, schemaFile) named in a manifest
ListedTriples(manifests) ==
    UNION { UNION { { [contextName |-> c, version |-> v,
                       schemaFile |-> manifests[c].versions.at[v].schemas[i]] :
                      i \in 1..Len(manifests[c].versions.at[v].schemas) } :
                    v \in DOMAIN manifests[c].versions.at } :
            c \in DOMAIN manifests }

KeyOf(t) == CacheKey(t.contextName, t.version, t.schemaFile)

\* registry.contexts[contextName]?.path || contextName
ContextPath(registry, contextName) ==
    IF contextName \in DOMAIN registry.contexts /\ Truthy(registry.contexts[contextName], "path")
    THEN registry.contexts[contextName].path
    ELSE contextName

\* loadAllSchemas run to completion with no other call in between: every
\* listed key that is not cached and that the document store serves is cached
LoadAllSchemasResult(registry, manifests, cache) ==
    IF registry = NullRegistry THEN cache
    ELSE LET PathOf(t) == FetchPath(ContextPath(registry, t.contextName), t.version, t.schemaFile)
             fetched == { t \in ListedTriples(manifests) :
                            KeyOf(t) \notin DOMAIN cache /\ PathOf(t) \in DOMAIN ServerFiles }
         IN [k \in DOMAIN cache \cup { KeyOf(t) : t \in fetched } |->
                IF k \in DOMAIN cache THEN cache[k]
                ELSE ServerFiles[PathOf(CHOOSE t \in fetched : KeyOf(t) = k)]]

ManifestPath(contextPath) == contextPath \o "/manifest.json"
SchemaPath(contextPath, version, schemaFile) ==
    contextPath \o "/v" \o version \o "/" \o schemaFile

\* Variant: the export writes a document into the folder `${version}`
\* instead of `v${version}`
ZipEntriesVersionFolder(registry, manifests, cache) ==
    LET PathOfManifest(c) == ManifestPath(ContextPath(registry, c))
        PathOfSchema(t) == ContextPath(registry, t.contextName) \o "/" \o t.version
                           \o "/" \o t.schemaFile
        written == { t \in ListedTriples(manifests) : KeyOf(t) \in DOMAIN cache }
        paths == {"context-registry.json"}
                 \cup { PathOfManifest(c) : c \in DOMAIN manifests }
                 \cup { PathOfSchema(t) : t \in written }
    IN [p \in paths |->
          IF p = "context-registry.json" THEN Text(JsonRegistry(registry))
          ELSE IF \E t \in written : PathOfSchema(t) = p
          THEN Text(JsonSchema(cache[KeyOf(CHOOSE t \in written : PathOfSchema(t) = p)]))
          ELSE Text(JsonManifest(manifests[CHOOSE c \in DOMAIN manifests : PathOfManifest(c) = p]))]

\* the entries exportAsZip adds to the ZIP
ZipEntries(registry, manifests, cache) ==
    LET PathOfManifest(c) == ManifestPath(ContextPath(registry, c))
        PathOfSchema(t) == SchemaPath(ContextPath(registry, t.contextName), t.version, t.schemaFile)
        written == { t \in ListedTriples(manifests) : KeyOf(t) \in DOMAIN cache }
        paths == {"context-registry.json"}
                 \cup { PathOfManifest(c) : c \in DOMAIN manifests }
                 \cup { PathOfSchema(t) : t \in written }
    IN [p \in paths |->
          IF p = "context-registry.json" THEN Text(JsonRegistry(registry))
          ELSE IF \E t \in written : PathOfSchema(t) = p
          THEN Text(JsonSchema(cache[KeyOf(CHOOSE t \in written : PathOfSchema(t) = p)]))
          ELSE Text(JsonManifest(manifests[CHOOSE c \in DOMAIN manifests : PathOfManifest(c) = p]))]

\* Variant: the export writes the cache as it was before loadAllSchemas
ExportAsZipBeforeLoad ==
    /\ Call([op |-> "exportAsZip", repeated |-> (last.op = "exportAsZip")])
    /\ schemas' = LoadAllSchemasResult(contextRegistry, contextManifests, schemas)
    /\ IF contextRegistry = NullRegistry
       THEN UNCHANGED archive
       ELSE archive' = ZipEntries(contextRegistry, contextManifests, schemas)
    /\ UNCHANGED <<contextRegistry, contextManifests, activeContext, activeVersion,
                   activeSchemaFile, activeFieldId, hasUnsavedChanges, isLoading, error,
                   pending>>

ExportAsZip ==
    /\ Call([op |-> "exportAsZip", repeated |-> (last.op = "exportAsZip")])
    /\ schemas' = LoadAllSchemasResult(contextRegistry, contextManifests, schemas)
    /\ IF contextRegistry = NullRegistry
       THEN UNCHANGED archive
       ELSE archive' = ZipEntries(contextRegistry, contextManifests, schemas')
    /\ UNCHANGED <<contextRegistry, contextManifests, activeContext, activeVersion,
                   activeSchemaFile, activeFieldId, hasUnsavedChanges, isLoading, error,
                   pending>>

---------------------------------------------------------------------------
\* Import

Failed == [ok |-> FALSE]

\* what importFromZip has built when it reaches its set(...), or Failed when
\* it returned false or threw before
ImportOutcome(file) ==
    IF ~file.readable THEN Failed
    ELSE IF "context-registry.json" \notin DOMAIN file.entries THEN Failed
    ELSE IF ~Parses(file.entries["context-registry.json"]) THEN Failed
    ELSE LET registry == file.entries["context-registry.json"].text
         IN IF "contexts" \notin DOMAIN registry THEN Failed
            ELSE
            LET PathOfContext(c) == IF Truthy(registry.contexts[c], "path")
                                    THEN registry.contexts[c].path ELSE c
                found == { c \in DOMAIN registry.contexts :
                             ManifestPath(PathOfContext(c)) \in DOMAIN file.entries }
            IN IF \E c \in found : ~Parses(file.entries[ManifestPath(PathOfContext(c))])
               THEN Failed
               ELSE
               LET newManifests == [c \in found |->
                                       file.entries[ManifestPath(PathOfContext(c))].text]
                   PathOfSchema(t) == SchemaPath(PathOfContext(t.contextName), t.version, t.schemaFile)
                   present == { t \in ListedTriples(newManifests) :
                                  PathOfSchema(t) \in DOMAIN file.entries }
               IN IF \E t \in present : ~Parses(file.entries[PathOfSchema(t)])
                  THEN Failed
                  ELSE [ok |-> TRUE,
                        registry |-> registry,
                        manifests |-> newManifests,
                        schemas |-> [k \in { KeyOf(t) : t \in present } |->
                                        file.entries[PathOfSchema(CHOOSE t \in present :
                                                                    KeyOf(t) = k)].text]]

\* Variant: importFromZip that sets the registry as soon as it has parsed it
ImportFromZipEarlyCommit(file) ==
    /\ Call([op |-> "importFromZip", file |-> file, result |-> ImportOutcome(file).ok])
    /\ IF ImportOutcome(file).ok
       THEN /\ contextRegistry' = ImportOutcome(file).registry
            /\ contextManifests' = ImportOutcome(file).manifests
            /\ schemas' = ImportOutcome(file).schemas
            /\ MarkUnsaved
       ELSE /\ contextRegistry' =
                IF /\ file.readable
                   /\ "context-registry.json" \in DOMAIN file.entries
                   /\ Parses(file.entries["context-registry.json"])
                   /\ "contexts" \in DOMAIN file.entries["context-registry.json"].text
                THEN file.entries["context-registry.json"].text
                ELSE contextRegistry
            /\ UNCHANGED <<contextManifests, schemas, hasUnsavedChanges>>
    /\ UNCHANGED <<activeContext, activeVersion, activeSchemaFile, activeFieldId,
                   isLoading, error, pending, archive>>

ImportFromZip(file) ==
    /\ LET outcome == ImportOutcome(file)
       IN /\ Call([op |-> "importFromZip", file |-> file, result |-> outcome.ok])
          /\ IF outcome.ok
             THEN /\ contextRegistry' = outcome.registry
                  /\ contextManifests' = outcome.manifests
                  /\ schemas' = outcome.schemas
                  /\ MarkUnsaved
             ELSE UNCHANGED <<contextRegistry, contextManifests, schemas, hasUnsavedChanges>>
    /\ UNCHANGED <<activeContext, activeVersion, activeSchemaFile, activeFieldId,
                   isLoading, error, pending, archive>>

\* The files the user can pick: the exported archive, and that archive
\* unreadable, with one entry missing, with one entry that does not parse,
\* or with a registry that has no contexts
Zip(entries) == [readable |-> TRUE, entries |-> entries]
Unreadable == [readable |-> FALSE]
PickableFiles ==
    IF archive = NoArchive
    THEN {Unreadable, Zip(EmptyMap)}
    ELSE {Zip(archive), Unreadable,
          Zip(Put(archive, "context-registry.json", Text([defaultContext |-> "default"])))}
         \cup { Zip(Without(archive, p)) : p \in DOMAIN archive }
         \cup { Zip(Put(archive, p, Corrupt)) : p \in DOMAIN archive }

---------------------------------------------------------------------------
\* importData


\* newSchemas after the forEach over data.contexts: every document of every
\* version of every context is put under `${contextName}@${version}/${schemaFile}`
ImportedSchemas(cache, contexts) ==
    LET withVersions == { c \in DOMAIN contexts : HasObject(contexts[c], "versions") }
        triples == UNION { UNION { { [contextName |-> c, version |-> v, schemaFile |-> f] :
                                     f \in DOMAIN contexts[c].versions[v] } :
                                   v \in DOMAIN contexts[c].versions } :
                           c \in withVersions }
    IN [k \in DOMAIN cache \cup { KeyOf(t) : t \in triples } |->
          IF \E t \in triples : KeyOf(t) = k
          THEN LET t == CHOOSE t \in triples : KeyOf(t) = k
               IN contexts[t.contextName].versions[t.version][t.schemaFile]
          ELSE cache[k]]

\* newManifests after the forEach over data.contexts
ImportedManifests(manifests, contexts) ==
    LET withManifest == { c \in DOMAIN contexts : HasObject(contexts[c], "manifest.json") }
    IN [c \in DOMAIN manifests \cup withManifest |->
          IF c \in withManifest THEN contexts[c]["manifest.json"] ELSE manifests[c]]

\* importData returns this: false from the validation or from the catch
ImportDataResult(jsonData) ==
    /\ Parses(jsonData)
    /\ jsonData.text # NullValue
    /\ HasObject(jsonData.text, "context-registry.json") \/ HasObject(jsonData.text, "contexts")
    /\ HasObject(jsonData.text, "contexts") =>
          \A c \in DOMAIN jsonData.text.contexts : jsonData.text.contexts[c] # NullValue

ImportData(jsonData) ==
    /\ Call([op |-> "importData", jsonData |-> jsonData, result |-> ImportDataResult(jsonData)])
    /\ IF ~Parses(jsonData) \/ jsonData.text = NullValue
       THEN UNCHANGED <<contextRegistry, contextManifests, schemas, hasUnsavedChanges>>
       ELSE LET data == jsonData.text
            IN IF ~HasObject(data, "context-registry.json") /\ ~HasObject(data, "contexts")
               THEN UNCHANGED <<contextRegistry, contextManifests, schemas, hasUnsavedChanges>>
               ELSE /\ contextRegistry' = IF HasObject(data, "context-registry.json")
                                          THEN data["context-registry.json"]
                                          ELSE contextRegistry
                    /\ IF ~HasObject(data, "contexts")
                       THEN /\ UNCHANGED <<contextManifests, schemas>>
                            /\ MarkUnsaved
                       ELSE IF \E c \in DOMAIN data.contexts : data.contexts[c] = NullValue
                       THEN UNCHANGED <<contextManifests, schemas, hasUnsavedChanges>>
                       ELSE /\ contextManifests' = ImportedManifests(contextManifests, data.contexts)
                            /\ schemas' = ImportedSchemas(schemas, data.contexts)
                            /\ MarkUnsaved
    /\ UNCHANGED <<activeContext, activeVersion, activeSchemaFile, activeFieldId,
                   isLoading, error, pending, archive>>

\* The documents importData is called with: text that is no JSON, null, an
\* object with neither key, with the registry only, with the contexts only,
\* with both, and with both where one context is null
MdsCoreDoc ==
    [profileId |-> "core", version |-> "1.8.0", groups |-> <<GeneralGroup>>,
     fields |-> <<TitleField>>]
MdsManifest ==
    [contextName |-> "mds", name |-> "MDS OEH",
     versions |-> [keys |-> <<"1.8.0">>,
                   at |-> [v \in {"1.8.0"} |->
                             [releaseDate |-> "2025-11-01", isDefault |-> TRUE,
                              schemas |-> <<"core.json">>, changelog |-> InitialChangelog]]]]
ImportedRegistry ==
    [contexts |-> [c \in {"default", "mds"} |->
                      IF c = "default" THEN ServerRegistry.contexts["default"]
                      ELSE [name |-> "MDS OEH", description |-> "Weiterer Kontext",
                            defaultVersion |-> "1.8.0", path |-> "mds_oeh"]],
     defaultContext |-> "default"]
ImportedContexts ==
    [c \in {"mds"} |->
        ("manifest.json" :> MdsManifest)
        @@ [versions |-> [v \in {"1.8.0"} |-> [f \in {"core.json"} |-> MdsCoreDoc]]]]
ImportDocuments ==
    {Corrupt,
     Text(NullValue),
     Text([exported |-> "2025-11-01"]),
     Text(("context-registry.json" :> ImportedRegistry)),
     Text([contexts |-> ImportedContexts]),
     Text(("context-registry.json" :> ImportedRegistry) @@ [contexts |-> ImportedContexts]),
     Text(("context-registry.json" :> ImportedRegistry)
          @@ [contexts |-> [c \in {"mds"} |-> NullValue]])}

---------------------------------------------------------------------------
\* Values the calls are made with

Contexts == {"default", "oer"}
Versions == {"1.8.0", "1.0.0", "2.0.0"}
Files == {"core.json", "event.json"}
FieldIds == {LrtId, TitleId}
GroupIds == {"general", "extra"}

ExtraGroup == [id |-> "extra", label |-> [de |-> "Weitere", en |-> "More"]]
PlainLrtField == [id |-> LrtId, group |-> "extra",
                  label |-> [de |-> "Typ", en |-> "Type"],
                  system |-> [datatype |-> "uri"]]
NewFields == {TitleField, PlainLrtField}
FieldUpdates == {[group |-> "extra"],
                 [system |-> [datatype |-> "string"]],
                 [system |-> [datatype |-> "uri",
                              vocabulary |-> [type |-> "closed",
                                              concepts |-> <<NoIconConcept, EmptyFileConcept,
                                                            EmptyIconConcept>>]]]}
GroupUpdates == {[label |-> [de |-> "Basis", en |-> "Basic"]], [id |-> "extra"]}
NewContentType == [label |-> [de |-> "Person", en |-> "Person"], icon |-> "person",
                   schema_file |-> "person.json"]
\* the dialog's icon is free text and may be left empty; the store itself
\* takes any schema_file
NewContentTypes == {NewContentType, EmptyIconConcept, EmptyFileConcept}
NewChangelogEntry == [date |-> NowIso, type |-> "changed", description |-> "Feld angepasst"]

\* navigation
Navigate ==
    \/ \E c \in Contexts : SetActiveContext(c)
    \/ \E v \in Versions : SetActiveVersion(v)
    \/ \E f \in Files \cup {Null} : SetActiveSchema(f)
    \/ \E id \in FieldIds \cup {Null} : SetActiveField(id)
    \/ \E p \in pending : LoadSchemaComplete(p)

\* contexts, versions, schema files, changelog
Lifecycle ==
    \/ \E c \in Contexts, b \in {Undefined, "default"} :
          CreateContext(c, "Neu", b,
                        IF b = Undefined THEN <<Undefined>> ELSE <<"core.json", "event.json">>)
    \/ \E c \in Contexts : DeleteContext(c)
    \/ \E c \in Contexts, v \in Versions, b \in {Undefined, "1.8.0"} : CreateVersion(c, v, b)
    \/ \E c \in Contexts, v \in Versions : DeleteVersion(c, v)
    \/ \E f \in Files : CreateSchema(f, "type:neu", "Neu")
    \/ \E f \in Files : DeleteSchema(f)
    \/ \E c \in Contexts, v \in Versions : AddChangelogEntry(c, v, NewChangelogEntry)

\* fields, groups and content types of the documents
Editing ==
    \/ \E f \in Files : UpdateSchema(f, [version |-> "9.9.9"])
    \/ \E f \in Files, field \in NewFields : AddField(f, field)
    \/ \E f \in Files, id \in FieldIds, u \in FieldUpdates : UpdateField(f, id, u)
    \/ \E f \in Files, id \in FieldIds : DeleteField(f, id)
    \/ \E f \in Files, id \in FieldIds, i \in 0..1 : MoveField(f, id, i)
    \/ \E f \in Files : AddGroup(f, ExtraGroup)
    \/ \E f \in Files, g \in GroupIds, u \in GroupUpdates : UpdateGroup(f, g, u)
    \/ \E f \in Files, g \in GroupIds : DeleteGroup(f, g)
    \/ GetContentTypes
    \/ \E contentType \in NewContentTypes : AddContentType(contentType)
    \/ \E f \in {"event.json", "person.json"} : RemoveContentType(f)

\* export and import
Archiving ==
    \/ ExportAsZip
    \/ \E file \in PickableFiles : ImportFromZip(file)
    \/ \E jsonData \in ImportDocuments : ImportData(jsonData)

Next == Navigate \/ Lifecycle \/ Editing \/ Archiving

Spec == Init /\ [][Next]_vars

\* The store driven through its repository operations: navigation, the
\* context / version / schema lifecycle, the archive, and deleteGroup as the
\* edit that changes a cached document
NextRepo ==
    \/ Navigate
    \/ Lifecycle
    \/ Archiving
    \/ \E f \in Files, g \in GroupIds : DeleteGroup(f, g)

SpecRepo == Init /\ [][NextRepo]_vars

\* The store driven through navigation and the document operations
NextDoc == Navigate \/ Editing

SpecDoc == Init /\ [][NextDoc]_vars

\* The store driven through createContext, createVersion and deleteVersion only
NextVersions ==
    \/ \E c \in Contexts, b \in {Undefined, "default"} :
          CreateContext(c, "Neu", b,
                        IF b = Undefined THEN <<Undefined>> ELSE <<"core.json", "event.json">>)
    \/ \E c \in Contexts, v \in Versions, b \in {Undefined, "1.8.0"} : CreateVersion(c, v, b)
    \/ \E c \in Contexts, v \in Versions : DeleteVersion(c, v)

SpecVersions == Init /\ [][NextVersions]_vars

\* The store from its creation: the application calls loadContextRegistry,
\* the user navigates and creates contexts while it runs
NextBoot ==
    \/ LoadContextRegistry
    \/ \E ok \in BOOLEAN : RegistryFetched(ok)
    \/ \E ok \in BOOLEAN : ManifestFetched(ok)
    \/ \E c \in Contexts : SetActiveContext(c)
    \/ \E f \in Files \cup {Null} : SetActiveSchema(f)
    \/ \E p \in pending : LoadSchemaComplete(p)
    \/ \E c \in {"oer", "neu"}, b \in {Undefined, "default"} :
          CreateContext(c, "Neu", b,
                        IF b = Undefined THEN <<Undefined>> ELSE <<"core.json", "event.json">>)

SpecBoot == InitialState /\ [][NextBoot]_vars

---------------------------------------------------------------------------
\* The composite cache key, character by character.  The operations that
\* cache a document (loadSchema, createVersion, createSchema, loadAllSchemas,
\* the imports) build the key from names they take as they are given; the
\* dialogs only trim a version and replace white space in a context name.

MaxNameLen == 2
NameChars == {"a", "@", "/"}
Names == UNION { [1..n -> NameChars] : n \in 1..MaxNameLen }

\* `${contextName}@${version}/${schemaFile}` on character sequences
KeyChars(contextName, version, schemaFile) ==
    contextName \o <<"@">> \o version \o <<"/">> \o schemaFile

\* first position from `from` on that holds character ch, 0 when there is none
IndexOfChar(s, ch, from) ==
    IF \E i \in from..Len(s) : s[i] = ch
    THEN CHOOSE i \in from..Len(s) : s[i] = ch /\ \A j \in from..(i - 1) : s[j] # ch
    ELSE 0

\* key.match(/^([^@]+)@([^/]+)\/(.+)$/): [^@]+ ends at the first '@',
\* [^/]+ at the first '/' behind it, .+ is the rest; each is non-empty
MatchKey(key) ==
    LET at == IndexOfChar(key, "@", 1)
        slash == IF at = 0 THEN 0 ELSE IndexOfChar(key, "/", at + 1)
    IN IF at > 1 /\ slash > at + 1 /\ slash < Len(key)
       THEN [matched |-> TRUE,
             contextName |-> SubSeq(key, 1, at - 1),
             version |-> SubSeq(key, at + 1, slash - 1),
             schemaFile |-> SubSeq(key, slash + 1, Len(key))]
       ELSE [matched |-> FALSE, contextName |-> <<>>, version |-> <<>>, schemaFile |-> <<>>]

\* a document is about to be cached for the triple (contextName, version, schemaFile)
InitKey ==
    /\ contextRegistry = ServerRegistry
    /\ contextManifests = ServerManifests
    /\ schemas = (CacheKey("default", "1.8.0", "core.json") :> CoreDoc)
    /\ activeContext = "default"
    /\ activeVersion = "1.8.0"
    /\ activeSchemaFile = "core.json"
    /\ activeFieldId = Null
    /\ hasUnsavedChanges = FALSE
    /\ isLoading = FALSE
    /\ error = Null
    /\ pending = {}
    /\ archive = NoArchive
    /\ boot = BootDone
    /\ reader = NoReader
    /\ sweep = SweepIdle
    /\ \E c \in Names, v \in Names, f \in Names :
          last = [op |-> "cacheKey", contextName |-> c, version |-> v, schemaFile |-> f,
                  key |-> KeyChars(c, v, f)]
    /\ steps = 0

\* exportAll reads the key back
ExportMatch ==
    /\ last.op = "cacheKey"
    /\ last' = [op |-> "match", contextName |-> last.contextName, version |-> last.version,
                schemaFile |-> last.schemaFile, key |-> last.key,
                result |-> MatchKey(last.key)]
    /\ steps' = steps + 1
    /\ UNCHANGED <<storeVars, pending, archive, boot, reader, sweep>>

SpecKey == InitKey /\ [][ExportMatch]_vars

---------------------------------------------------------------------------
\* A reader of the store: a component that took get().contextManifests and
\* keeps the reference while the store goes on

CaptureSnapshot ==
    /\ ~reader.captured
    /\ reader' = [captured |-> TRUE,
                  contextManifests |-> contextManifests,
                  shared |-> EntriesOf(contextManifests),
                  detached |-> [p \in {} |-> Null]]
    /\ UNCHANGED <<storeVars, pending, archive, boot, sweep, last, steps>>

\* what the captured map shows for entry p now
ObservedEntry(p) ==
    IF p \in reader.shared
    THEN contextManifests[p.c].versions.at[p.v]
    ELSE reader.detached[p]

\* The store driven through navigation and the context / version / schema
\* lifecycle while a reader holds a captured map
NextSnap ==
    \/ CaptureSnapshot
    \/ Navigate
    \/ Lifecycle

SpecSnap == Init /\ [][NextSnap]_vars

---------------------------------------------------------------------------
\* loadAllSchemas.  The call takes the manifests and the registry once,
\* walks the listed triples in order and awaits one fetch at a time;
\* sweep.queue holds the triples from the one in flight on, each with the
\* path the call computed for it.

RECURSIVE Concat(_)
Concat(ss) == IF ss = <<>> THEN <<>> ELSE Head(ss) \o Concat(Tail(ss))

\* for (const [contextName, manifest] of manifests)
\*   for (const [version, versionEntry] of Object.entries(manifest.versions))
\*     for (const schemaFile of versionEntry.schemas)
ListedInOrder(registry, manifests) ==
    LET contexts == SelectSeq(ContextOrder, LAMBDA c : c \in DOMAIN manifests)
        OfVersion(c, v) ==
            [i \in 1..Len(manifests[c].versions.at[v].schemas) |->
                [cacheKey |-> CacheKey(c, v, manifests[c].versions.at[v].schemas[i]),
                 path |-> FetchPath(ContextPath(registry, c), v,
                                    manifests[c].versions.at[v].schemas[i])]]
        OfContext(c) ==
            Concat([j \in 1..Len(manifests[c].versions.keys) |->
                       OfVersion(c, manifests[c].versions.keys[j])])
    IN Concat([j \in 1..Len(contexts) |-> OfContext(contexts[j])])

\* if (get().schemas.has(cacheKey)) continue
RECURSIVE SkipCached(_, _)
SkipCached(queue, cache) ==
    IF queue = <<>> THEN <<>>
    ELSE IF Head(queue).cacheKey \in DOMAIN cache THEN SkipCached(Tail(queue), cache)
    ELSE queue

\* the call at the next triple that is not cached: its fetch is in flight
SweepAt(queue, cache) ==
    LET rest == SkipCached(queue, cache)
    IN [pc |-> IF rest = <<>> THEN "done" ELSE "fetch", queue |-> rest]

LoadAllSchemas ==
    /\ sweep.pc \in {"idle", "done"}
    /\ steps < MaxSteps
    /\ steps' = steps + 1
    /\ last' = [op |-> "loadAllSchemas"]
    /\ sweep' = IF contextRegistry = NullRegistry
                THEN [pc |-> "done", queue |-> <<>>]
                ELSE SweepAt(ListedInOrder(contextRegistry, contextManifests), schemas)
    /\ UNCHANGED <<storeVars, pending, archive, boot, reader>>

\* the fetch in flight ends: a response that is ok is written under its key,
\* anything else is skipped; the call goes on to the next triple
SweepFetched(ok) ==
    /\ sweep.pc = "fetch"
    /\ LET t == Head(sweep.queue)
           success == ok /\ t.path \in DOMAIN ServerFiles
       IN /\ last' = [op |-> "sweepFetched", cacheKey |-> t.cacheKey, ok |-> success,
                      cached |-> t.cacheKey \in DOMAIN schemas]
          /\ schemas' = IF success THEN Put(schemas, t.cacheKey, ServerFiles[t.path])
                        ELSE schemas
          /\ sweep' = SweepAt(Tail(sweep.queue), schemas')
    /\ UNCHANGED <<contextRegistry, contextManifests, activeContext, activeVersion,
                   activeSchemaFile, activeFieldId, hasUnsavedChanges, isLoading, error,
                   pending, archive, boot, reader, steps>>

\* The store driven through navigation and the lifecycle operations while a
\* loadAllSchemas call is under way
NextSweep ==
    \/ LoadAllSchemas
    \/ \E ok \in BOOLEAN : SweepFetched(ok)
    \/ Navigate
    \/ Lifecycle

SpecSweep == Init /\ [][NextSweep]_vars

---------------------------------------------------------------------------
\* The store from its creation, driven through the operations that set the
\* registry or a manifest, with the fetches of loadContextRegistry and
\* loadContextManifest ending at any point between them
NextRegistry ==
    \/ LoadContextRegistry
    \/ \E ok \in BOOLEAN : RegistryFetched(ok)
    \/ \E ok \in BOOLEAN : ManifestFetched(ok)
    \/ \E c \in {"oer", "neu"} :
          CreateContext(c, "Neu", "default", <<"core.json">>)
    \/ \E c \in Contexts : DeleteContext(c)
    \/ \E c \in Contexts, v \in {"1.0.0", "2.0.0"} : CreateVersion(c, v, Undefined)
    \/ \E c \in Contexts, v \in {"1.0.0", "2.0.0"} : DeleteVersion(c, v)
    \/ \E file \in PickableFiles : ImportFromZip(file)

SpecRegistry == InitialState /\ [][NextRegistry]_vars

---------------------------------------------------------------------------
\* The cached documents driven through the group and field operations only
NextFields ==
    \/ \E f \in Files : AddGroup(f, ExtraGroup)
    \/ \E f \in Files, g \in GroupIds, u \in GroupUpdates : UpdateGroup(f, g, u)
    \/ \E f \in Files, g \in GroupIds : DeleteGroup(f, g)
    \/ \E f \in Files, field \in NewFields : AddField(f, field)
    \/ \E f \in Files, id \in FieldIds, u \in FieldUpdates : UpdateField(f, id, u)
    \/ \E f \in Files, id \in FieldIds : DeleteField(f, id)
    \/ \E f \in Files, id \in FieldIds, i \in 0..1 : MoveField(f, id, i)

SpecFields == Init /\ [][NextFields]_vars

---------------------------------------------------------------------------
\* Properties

\* the step is a call of operation op
CallOf(op) == steps' = steps + 1 /\ last'.op = op

Loaded == contextRegistry # NullRegistry

\* the keys a manifest lists
ListedKeys(manifests) == { KeyOf(t) : t \in ListedTriples(manifests) }

\* what importFromZip makes of the archive exportAsZip writes from the
\* current state
ReImported ==
    ImportOutcome(Zip(ZipEntries(contextRegistry, contextManifests,
        LoadAllSchemasResult(contextRegistry, contextManifests, schemas))))

C2_DefaultContextProtected ==
    [][ (/\ CallOf("deleteContext")
         /\ last'.contextName = "default"
         /\ Loaded
         /\ "default" \in DOMAIN contextRegistry.contexts)
        => /\ contextRegistry' # NullRegistry
           /\ "default" \in DOMAIN contextRegistry'.contexts
           /\ contextRegistry'.contexts["default"] = contextRegistry.contexts["default"]
           /\ contextManifests' = contextManifests
           /\ error' # Null ]_vars

C2_Witness ==
    /\ last.op = "deleteContext"
    /\ last.contextName = "default"
    /\ error = "Cannot delete default context"
    /\ "default" \in DOMAIN contextRegistry.contexts
    /\ "default" \in DOMAIN contextManifests

NoEmptyManifest ==
    \A c \in DOMAIN contextManifests : Len(contextManifests[c].versions.keys) >= 1

\* C3: deleteVersion(ctx, V) on a manifest whose only version is V leaves
\* the manifest's versions unchanged, sets the error slot and leaves
\* hasUnsavedChanges as it was; and no manifest ever has zero versions.
C3_LastVersionProtected ==
    /\ [][ (/\ CallOf("deleteVersion")
            /\ last'.contextName \in DOMAIN contextManifests
            /\ contextManifests[last'.contextName].versions.keys = <<last'.version>>)
           => /\ contextManifests' = contextManifests
              /\ error' # Null
              /\ hasUnsavedChanges' = hasUnsavedChanges ]_vars
    /\ []NoEmptyManifest

C3_Witness ==
    /\ last.op = "deleteVersion"
    /\ last.contextName \in DOMAIN contextManifests
    /\ contextManifests[last.contextName].versions.keys = <<last.version>>
    /\ error = "Kann letzte Version nicht loeschen"
    /\ ~hasUnsavedChanges

\* f2 is f with group unset and every other key as it was
GroupUnset(f, f2) ==
    /\ DOMAIN f2 \ {"group"} = DOMAIN f \ {"group"}
    /\ \A k \in DOMAIN f \ {"group"} : f2[k] = f[k]
    /\ ("group" \in DOMAIN f2 => f2.group = Undefined)

\* C4: deleteGroup(D, G) on a cached document D of the active context and
\* version leaves, in the one step that changes the cache, no group with
\* id G and no field with group G in D; every field that had group G
\* differs from what it was only in group being unset, every other field is
\* as it was, and the fields keep their order.
C4_DeleteGroupCleansReferences ==
    [][ (/\ CallOf("deleteGroup")
         /\ ActiveKey(last'.schemaFile) \in DOMAIN schemas)
        => LET key == ActiveKey(last'.schemaFile)
               G == last'.groupId
               D == schemas[key]
               D2 == schemas'[key]
           IN /\ \A i \in 1..Len(D2.groups) : D2.groups[i].id # G
              /\ Len(D2.fields) = Len(D.fields)
              /\ \A i \in 1..Len(D.fields) :
                    /\ ~FieldInGroup(D2.fields[i], G)
                    /\ IF FieldInGroup(D.fields[i], G)
                       THEN GroupUnset(D.fields[i], D2.fields[i])
                       ELSE D2.fields[i] = D.fields[i] ]_vars

\* C4 witness: a group that a field referred to was deleted: the group is
\* gone and the field's group is unset
C4_Witness ==
    /\ last.op = "deleteGroup"
    /\ ActiveKey(last.schemaFile) \in DOMAIN schemas
    /\ LET D == schemas[ActiveKey(last.schemaFile)]
       IN /\ \E i \in 1..Len(D.fields) :
                "group" \in DOMAIN D.fields[i] /\ D.fields[i].group = Undefined
          /\ \A i \in 1..Len(D.groups) : D.groups[i].id # last.groupId

\* the operations on the fields, groups and content types of a document
DocumentOps ==
    {"updateSchema", "addField", "updateField", "deleteField", "moveField",
     "addGroup", "updateGroup", "deleteGroup", "addContentType", "removeContentType"}

\* C5 as stated: after createVersion(ctx, newV, base) every document cached
\* under ctx@newV has version newV and is otherwise equal (as JSON, where a
\* key set to undefined counts as absent) to the document of the same file
\* name cached under ctx@base; and an operation on the
\* fields, groups or content types of a document changes no document cached
\* under another key.
C5_VersionCopy ==
    /\ [][ (/\ CallOf("createVersion")
            /\ last'.contextName \in DOMAIN contextManifests)
           => LET ctx == last'.contextName
                  newV == last'.version
                  base == BaseVersion(contextManifests[ctx], last'.basedOnVersion)
              IN \A f \in {"core.json", "event.json", "person.json"} :
                    CacheKey(ctx, newV, f) \in DOMAIN schemas'
                    => /\ CacheKey(ctx, base, f) \in DOMAIN schemas'
                       /\ schemas'[CacheKey(ctx, newV, f)].version = newV
                       /\ JsonSchema(schemas'[CacheKey(ctx, newV, f)]) =
                            JsonSchema(Merge(schemas'[CacheKey(ctx, base, f)],
                                             [version |-> newV])) ]_vars
    /\ [][ (steps' = steps + 1 /\ last'.op \in DocumentOps)
           => \A k \in DOMAIN schemas :
                 k # ActiveKey(IF last'.op \in {"addContentType", "removeContentType"}
                               THEN "core.json" ELSE last'.schemaFile)
                 => k \in DOMAIN schemas' /\ schemas'[k] = schemas[k] ]_vars

\* C6 as stated: in every reachable state activeContext is a key of the
\* registry, activeVersion is a version of activeContext's manifest,
\* activeSchemaFile when set is listed in that version's schemas, and
\* activeFieldId when set implies that activeSchemaFile is set and names a
\* field of the active document.
C6_CursorsCoherent ==
    Loaded =>
        /\ activeContext \in DOMAIN contextRegistry.contexts
        /\ activeContext \in DOMAIN contextManifests
        /\ OHas(contextManifests[activeContext].versions, activeVersion)
        /\ activeSchemaFile # Null =>
              Includes(contextManifests[activeContext].versions.at[activeVersion].schemas,
                       activeSchemaFile)
        /\ activeFieldId # Null =>
              /\ activeSchemaFile # Null
              /\ ActiveKey(activeSchemaFile) \in DOMAIN schemas
              /\ FindIndex(schemas[ActiveKey(activeSchemaFile)].fields, activeFieldId) # 0

\* C7: setActiveVersion(v) sets activeVersion to v and the schema and field
\* cursors to null, and leaves activeContext, the registry, the manifests
\* and the schema cache as they were.
C7_SetActiveVersionResets ==
    [][ CallOf("setActiveVersion")
        => /\ activeVersion' = last'.version
           /\ activeSchemaFile' = Null
           /\ activeFieldId' = Null
           /\ UNCHANGED <<activeContext, contextRegistry, contextManifests, schemas>> ]_vars

\* C7 witness: the version was switched to another one than the context's
\* default while documents were cached
C7_Witness ==
    /\ last.op = "setActiveVersion"
    /\ activeVersion = last.version
    /\ activeVersion = "1.0.0"
    /\ activeContext = "default"
    /\ activeSchemaFile = Null
    /\ activeFieldId = Null
    /\ hasUnsavedChanges
    /\ schemas # EmptyMap

\* one entry for each concept with a non-empty schema_file, in order
RECURSIVE EntriesFor(_)
EntriesFor(concepts) ==
    IF concepts = <<>> THEN <<>>
    ELSE LET c == Head(concepts)
             missingIcon == "icon" \notin DOMAIN c \/ c.icon = Undefined \/ c.icon = ""
         IN IF "schema_file" \in DOMAIN c /\ c.schema_file # Undefined /\ c.schema_file # ""
            THEN <<[label |-> c.label,
                    icon |-> IF missingIcon THEN "article" ELSE c.icon,
                    schema_file |-> c.schema_file]>> \o EntriesFor(Tail(concepts))
            ELSE EntriesFor(Tail(concepts))

\* the first field with id ccm:oeh_flex_lrt of the active core.json, as a
\* set that is empty when core.json is not cached or has no such field
LrtFieldOfActiveCore ==
    LET key == CacheKey(activeContext, activeVersion, "core.json")
    IN IF key \notin DOMAIN schemas THEN {}
       ELSE LET fields == schemas[key].fields
                at == { i \in 1..Len(fields) : fields[i].id = LrtId }
            IN IF at = {} THEN {}
               ELSE { fields[CHOOSE i \in at : \A j \in at : i <= j] }

\* C8: getContentTypes() changes no state and returns, in vocabulary order,
\* exactly one entry {label, icon, schema_file} for each concept of field
\* ccm:oeh_flex_lrt of the active context and version's core.json that has
\* a non-empty schema_file, with icon "article" when the concept's icon is
\* missing (absent or the empty string); concepts without a schema_file are
\* left out; it returns the empty list when core.json is not cached, the
\* field is absent, or the field has no vocabulary.
C8_ContentTypeProjection ==
    [][ CallOf("getContentTypes")
        => /\ UNCHANGED storeVars
           /\ IF \E f \in LrtFieldOfActiveCore :
                    /\ "system" \in DOMAIN f
                    /\ "vocabulary" \in DOMAIN f.system
                    /\ "concepts" \in DOMAIN f.system.vocabulary
              THEN \A f \in LrtFieldOfActiveCore :
                      last'.result = EntriesFor(f.system.vocabulary.concepts)
              ELSE last'.result = <<>> ]_vars

\* C8 witness: the projection left a concept out and put "article" for a
\* missing icon
C8_Witness ==
    /\ last.op = "getContentTypes"
    /\ \E f \in LrtFieldOfActiveCore :
          /\ Len(last.result) >= 2
          /\ Len(last.result) < Len(f.system.vocabulary.concepts)
          /\ \E i \in 1..Len(f.system.vocabulary.concepts) :
                "icon" \notin DOMAIN f.system.vocabulary.concepts[i]
          /\ \E i \in 1..Len(last.result) : last.result[i].icon = "article"

\* C9: an exportAsZip call changes neither the registry nor a manifest, and
\* an exportAsZip call that directly follows another one writes the same
\* entry paths with the same content (the document store answering every
\* fetch the same way both times).
C9_ReExportIdentical ==
    [][ CallOf("exportAsZip")
        => /\ contextRegistry' = contextRegistry
           /\ contextManifests' = contextManifests
           /\ (last.op = "exportAsZip" /\ Loaded) => archive' = archive ]_vars

\* C9 witness: the second of two exports in a row, of a store that was
\* changed before and whose first export fetched a document
C9_Witness ==
    /\ last.op = "exportAsZip"
    /\ last.repeated
    /\ hasUnsavedChanges
    /\ archive # NoArchive
    /\ SchemaPath("default", "1.8.0", "event.json") \in DOMAIN archive

\* C10: when importFromZip returns false (no context-registry.json at the
\* root, an unreadable ZIP, or a JSON file of the archive that does not
\* parse, a manifest or schema read after the registry included), the
\* registry, the manifests, the schema cache, the cursors and
\* hasUnsavedChanges are what they were before the call.
C10_FailedImportChangesNothing ==
    [][ (CallOf("importFromZip") /\ ~last'.result)
        => UNCHANGED <<contextRegistry, contextManifests, schemas, activeContext,
                       activeVersion, activeSchemaFile, activeFieldId,
                       hasUnsavedChanges>> ]_vars

\* C10 witness: an import failed on a manifest or schema file after it had
\* parsed a registry that differs from the store's
C10_Witness ==
    /\ last.op = "importFromZip"
    /\ ~last.result
    /\ last.file.readable
    /\ "context-registry.json" \in DOMAIN last.file.entries
    /\ Parses(last.file.entries["context-registry.json"])
    /\ last.file.entries["context-registry.json"].text # JsonRegistry(contextRegistry)
    /\ \E p \in DOMAIN last.file.entries : ~Parses(last.file.entries[p])

\* C11 as stated: importData returns false when the parsed document has no
\* "context-registry.json" key, whether or not it has a contexts key;
\* whenever it returns false the registry, the manifests and the schema
\* cache are what they were; and it returns true for a document that has
\* the registry key, with or without a (well-formed) contexts key.
C11_ImportDataValidates ==
    [][ CallOf("importData")
        => LET jsonData == last'.jsonData
               isObject == Parses(jsonData) /\ jsonData.text # NullValue
               hasRegistry == isObject /\ HasObject(jsonData.text, "context-registry.json")
               wellFormed == HasObject(jsonData.text, "contexts") =>
                                \A c \in DOMAIN jsonData.text.contexts :
                                   jsonData.text.contexts[c] # NullValue
           IN /\ ~hasRegistry => ~last'.result
              /\ ~last'.result => UNCHANGED <<contextRegistry, contextManifests, schemas>>
              /\ (hasRegistry /\ wellFormed) => last'.result ]_vars

\* the operations that edit the document under activeContext@activeVersion/schemaFile
EditOps ==
    {"addField", "updateField", "deleteField", "moveField",
     "addGroup", "updateGroup", "deleteGroup", "updateSchema"}

\* C12: when no document is cached under activeContext@activeVersion/
\* schemaFile, addField, updateField, deleteField, moveField, addGroup,
\* updateGroup, deleteGroup and updateSchema leave the whole store state as
\* it was, activeFieldId, the error slot and hasUnsavedChanges included, and
\* start no load.
C12_UncachedEditIsNoOp ==
    [][ (/\ steps' = steps + 1
         /\ last'.op \in EditOps
         /\ ActiveKey(last'.schemaFile) \notin DOMAIN schemas)
        => UNCHANGED <<storeVars, pending>> ]_vars

\* C12 witness: addField named a file that is not cached while the field
\* cursor was on another field: the cursor is where it was
C12_Witness ==
    /\ last.op = "addField"
    /\ ActiveKey(last.schemaFile) \notin DOMAIN schemas
    /\ activeFieldId # Null
    /\ activeFieldId # last.field.id
    /\ ~hasUnsavedChanges

\* C13 as stated: setActiveSchema(f) with f non-null sets activeSchemaFile
\* to f and activeFieldId to null, leaves activeContext and activeVersion
\* as they were, and puts a loadSchema(activeContext, activeVersion, f) in
\* flight only when activeContext@activeVersion/f is not in the cache;
\* setActiveSchema(null) puts no load in flight.
C13_SetActiveSchemaLoadsOnDemand ==
    [][ CallOf("setActiveSchema")
        => IF last'.schemaFile # Null
           THEN /\ activeSchemaFile' = last'.schemaFile
                /\ activeFieldId' = Null
                /\ UNCHANGED <<activeContext, activeVersion>>
                /\ pending' # pending => ActiveKey(last'.schemaFile) \notin DOMAIN schemas
                /\ pending' \ pending \subseteq
                      { p \in pending' : p.cacheKey = ActiveKey(last'.schemaFile) }
           ELSE pending' = pending ]_vars

\* C14: with a loaded registry, createContext(name, displayName, basedOn,
\* selectedSchemas) gives a registry entry for name with defaultVersion
\* "1.0.0" and path name, and a manifest for name whose only version is
\* "1.0.0" with isDefault true and schemas selectedSchemas (["core.json"]
\* when omitted); the schema cache is as it was and hasUnsavedChanges is
\* true.  With no registry loaded the call changes nothing.
C14_CreateContext ==
    [][ CallOf("createContext")
        => IF Loaded
           THEN LET name == last'.contextName
                    selected == last'.selectedSchemas
                IN /\ contextRegistry' # NullRegistry
                   /\ name \in DOMAIN contextRegistry'.contexts
                   /\ contextRegistry'.contexts[name].defaultVersion = "1.0.0"
                   /\ contextRegistry'.contexts[name].path = name
                   /\ name \in DOMAIN contextManifests'
                   /\ contextManifests'[name].versions.keys = <<"1.0.0">>
                   /\ DOMAIN contextManifests'[name].versions.at = {"1.0.0"}
                   /\ contextManifests'[name].versions.at["1.0.0"].isDefault = TRUE
                   /\ contextManifests'[name].versions.at["1.0.0"].schemas =
                         IF selected = <<Undefined>> THEN <<"core.json">> ELSE selected
                   /\ schemas' = schemas
                   /\ hasUnsavedChanges' = TRUE
           ELSE UNCHANGED <<storeVars, pending>> ]_vars

\* C14 witness: a context based on "default" was created with two selected
\* files while a document of "default" was cached: no document of the new
\* context is cached
C14_Witness ==
    /\ last.op = "createContext"
    /\ last.contextName = "neu"
    /\ last.basedOn = "default"
    /\ Loaded
    /\ "neu" \in DOMAIN contextManifests
    /\ contextManifests["neu"].versions.at["1.0.0"].schemas = <<"core.json", "event.json">>
    /\ DOMAIN schemas = {CacheKey("default", "1.8.0", "core.json")}
    /\ hasUnsavedChanges

\* the step ends the fetch loadContextRegistry was waiting for
FetchEnds(pc) == boot.pc = pc /\ boot' # boot

\* C20: a failed registry fetch sets the error slot, clears isLoading and
\* requests no manifest; a failed manifest fetch leaves the error slot and
\* the manifests as they were and the manifest of the next registry context
\* is requested; and when loadContextRegistry has ended after a successful
\* registry fetch (no context having been deleted meanwhile), every context
\* of the fetched registry had its manifest requested and contextManifests
\* holds a manifest for every context whose fetch succeeded, whichever of
\* the other fetches failed.
C20_ManifestFailuresSkipped ==
    /\ [][ (FetchEnds("registry") /\ ~last'.ok)
           => /\ error' # Null
              /\ ~isLoading'
              /\ boot'.pc = "done"
              /\ boot'.requested = {}
              /\ UNCHANGED <<contextRegistry, contextManifests>> ]_vars
    /\ [][ (FetchEnds("manifest") /\ ~last'.ok)
           => /\ error' = error
              /\ contextManifests' = contextManifests
              /\ LET rest == SelectSeq(Tail(boot.queue),
                                       LAMBDA c : c \in DOMAIN contextRegistry.contexts)
                 IN IF rest = <<>> THEN boot'.pc = "done"
                    ELSE /\ boot'.pc = "manifest"
                         /\ Head(boot'.queue) = Head(rest)
                         /\ boot'.path \in boot'.requested \ boot.requested ]_vars
    /\ [](boot.pc = "done" /\ boot.registryOk
          => /\ boot.fetched \cup boot.failed = DOMAIN ServerRegistry.contexts
             /\ \A c \in boot.fetched : c \in DOMAIN contextManifests)

\* C20 witness: the fetch of the first manifest failed and the fetch of the
\* second succeeded: the call has ended, the second manifest is there, the
\* first is not, and the error slot is empty
C20_Witness ==
    /\ boot.pc = "done"
    /\ boot.registryOk
    /\ boot.failed = {"default"}
    /\ boot.fetched = {"oer"}
    /\ "oer" \in DOMAIN contextManifests
    /\ "default" \notin DOMAIN contextManifests
    /\ error = Null
    /\ ~isLoading

\* C15: for a name other than "default" and a loaded registry,
\* deleteContext(name) removes name from the registry and from
\* contextManifests, leaves the entry and the manifest of every other
\* context and the whole schema cache as they were, and sets activeContext
\* to "default" whatever it was, without changing activeVersion,
\* activeSchemaFile or activeFieldId.
C15_DeleteContextFrame ==
    [][ (CallOf("deleteContext") /\ last'.contextName # "default" /\ Loaded)
        => LET name == last'.contextName
           IN /\ contextRegistry' # NullRegistry
              /\ DOMAIN contextRegistry'.contexts = DOMAIN contextRegistry.contexts \ {name}
              /\ \A c \in DOMAIN contextRegistry'.contexts :
                    contextRegistry'.contexts[c] = contextRegistry.contexts[c]
              /\ DOMAIN contextManifests' = DOMAIN contextManifests \ {name}
              /\ \A c \in DOMAIN contextManifests' : contextManifests'[c] = contextManifests[c]
              /\ schemas' = schemas
              /\ activeContext' = "default"
              /\ UNCHANGED <<activeVersion, activeSchemaFile, activeFieldId>> ]_vars

\* C15 witness: "oer" was deleted while it was the active context and a
\* document of it was open: the document is still cached and the version
\* and schema cursors are where they were
C15_Witness ==
    /\ last.op = "deleteContext"
    /\ last.contextName = "oer"
    /\ "oer" \notin DOMAIN contextRegistry.contexts
    /\ "oer" \notin DOMAIN contextManifests
    /\ "default" \in DOMAIN contextManifests
    /\ activeContext = "default"
    /\ activeVersion = "1.0.0"
    /\ activeSchemaFile = "core.json"
    /\ CacheKey("oer", "1.0.0", "core.json") \in DOMAIN schemas

\* the file names documents are cached under
FileNames == {"core.json", "event.json", "person.json"}

\* C16 as stated: after createVersion(ctx, newV, base) on a context with a
\* manifest (base being a version of it, the first one the manifest
\* enumerates when omitted) the manifest has an entry newV with isDefault
\* false, the schemas list of the base version and a changelog of exactly
\* one entry of type "added"; the cache holds ctx@newV/f exactly for the
\* listed files f whose ctx@base/f was cached, and no error is set.
C16_VersionEntry ==
    [][ (/\ CallOf("createVersion")
         /\ last'.contextName \in DOMAIN contextManifests
         /\ OHas(contextManifests[last'.contextName].versions,
                 IF last'.basedOnVersion = Undefined
                 THEN Head(contextManifests[last'.contextName].versions.keys)
                 ELSE last'.basedOnVersion))
        => LET ctx == last'.contextName
               newV == last'.version
               old == contextManifests[ctx].versions
               base == IF last'.basedOnVersion = Undefined THEN Head(old.keys)
                       ELSE last'.basedOnVersion
               listed == old.at[base].schemas
               new == contextManifests'[ctx].versions
           IN /\ OHas(new, newV)
              /\ new.at[newV].isDefault = FALSE
              /\ new.at[newV].schemas = listed
              /\ Len(new.at[newV].changelog) = 1
              /\ new.at[newV].changelog[1].type = "added"
              /\ \A f \in FileNames :
                    CacheKey(ctx, newV, f) \in DOMAIN schemas'
                    <=> (Includes(listed, f) /\ CacheKey(ctx, base, f) \in DOMAIN schemas)
              /\ error' = error ]_vars

\* the versions of a manifest whose entry has isDefault = true
DefaultVersions(manifest) ==
    { v \in DOMAIN manifest.versions.at :
         /\ "isDefault" \in DOMAIN manifest.versions.at[v]
         /\ manifest.versions.at[v].isDefault = TRUE }

\* C17 as stated: starting from manifests with exactly one version entry
\* with isDefault = true, every state reached by createContext,
\* createVersion and deleteVersion has exactly one version entry with
\* isDefault = true in every manifest.
C17_OneDefaultVersion ==
    \A c \in DOMAIN contextManifests : Cardinality(DefaultVersions(contextManifests[c])) = 1

\* the active context has a manifest with an entry for the active version
HasActiveEntry(manifests) ==
    /\ activeContext \in DOMAIN manifests
    /\ OHas(manifests[activeContext].versions, activeVersion)

\* the schemas list of the active version, empty when there is no entry
ActiveSchemaList(manifests) ==
    IF HasActiveEntry(manifests)
    THEN manifests[activeContext].versions.at[activeVersion].schemas
    ELSE <<>>

Occurrences(s, x) == Cardinality({i \in 1..Len(s) : s[i] = x})

\* the createSchema step: the empty document under the active key and the cursor
CreateSchemaPuts ==
    CallOf("createSchema") =>
        LET f == last'.schemaFile
            key == CacheKey(activeContext, activeVersion, f)
        IN /\ key \in DOMAIN schemas'
           /\ schemas' = Put(schemas, key, schemas'[key])
           /\ Len(schemas'[key].groups) = 1
           /\ schemas'[key].groups[1].id = "general"
           /\ schemas'[key].fields = <<>>
           /\ schemas'[key].version = activeVersion
           /\ activeSchemaFile' = f
           /\ UNCHANGED <<activeContext, activeVersion>>

\* createSchema(f) directly followed by deleteSchema(f), f neither cached
\* nor listed before the pair
CreateThenDelete ==
    /\ CallOf("deleteSchema")
    /\ FollowsCreateSchema(last'.schemaFile)

HasContentTypeVocabulary ==
    /\ ActiveKey("core.json") \in DOMAIN schemas
    /\ HasVocabulary(schemas[ActiveKey("core.json")])

\* the concepts of that vocabulary in a cache
ConceptsOf(cache) ==
    LET schema == cache[ActiveKey("core.json")]
    IN schema.fields[FindIndex(schema.fields, LrtId)].system.vocabulary.concepts

\* what getContentTypes shows for an entry: an empty icon reads 'article'
Shown(e) ==
    [label |-> e.label, icon |-> IF e.icon = "" THEN "article" ELSE e.icon,
     schema_file |-> e.schema_file]

WithoutFile(s) == SelectSeq(s, LAMBDA c : "schema_file" \notin DOMAIN c)

\* C19 (amended): with core.json cached for the active context and version
\* and field "ccm:oeh_flex_lrt" carrying a vocabulary, after
\* addContentType(e) getContentTypes() equals its previous result followed by
\* e with an empty icon read as 'article', or its previous result alone when
\* e.schema_file is empty; after removeContentType(f) it equals its previous
\* result without the entries whose schema_file = f, and the concepts
\* without schema_file are kept.  When core.json, the field or its
\* vocabulary is absent, both operations leave the store state unchanged.
C19_ContentTypeEdits ==
    [][/\ CallOf("addContentType") /\ HasContentTypeVocabulary =>
            ContentTypesOf(schemas', activeContext', activeVersion') =
                IF last'.contentType.schema_file = ""
                THEN ContentTypesOf(schemas, activeContext, activeVersion)
                ELSE Append(ContentTypesOf(schemas, activeContext, activeVersion),
                            Shown(last'.contentType))
       /\ CallOf("removeContentType") /\ HasContentTypeVocabulary =>
            /\ ContentTypesOf(schemas', activeContext', activeVersion') =
                   SelectSeq(ContentTypesOf(schemas, activeContext, activeVersion),
                             LAMBDA c : c.schema_file # last'.schemaFile)
            /\ WithoutFile(ConceptsOf(schemas')) = WithoutFile(ConceptsOf(schemas))
       /\ (CallOf("addContentType") \/ CallOf("removeContentType"))
          /\ ~HasContentTypeVocabulary => UNCHANGED storeVars]_vars

\* C19 witness: an entry with an empty icon was added behind content types
\* that were there before, next to a concept without schema_file
C19_Witness ==
    /\ last.op = "addContentType"
    /\ last.contentType.icon = ""
    /\ last.previous # <<>>
    /\ HasContentTypeVocabulary
    /\ WithoutFile(ConceptsOf(schemas)) # <<>>
    /\ ContentTypesOf(schemas, activeContext, activeVersion) =
           Append(last.previous, Shown(last.contentType))

\* C19 as stated: after addContentType(e), getContentTypes() equals its
\* previous result followed by e.
C19_AddAppendsEntry ==
    [][CallOf("addContentType") /\ HasContentTypeVocabulary =>
          ContentTypesOf(schemas', activeContext', activeVersion') =
              Append(ContentTypesOf(schemas, activeContext, activeVersion),
                     last'.contentType)]_vars

\* C21 as stated: for every triple (context, version, file) a document is
\* cached under, parsing the key "{context}@{version}/{file}" with
\* exportAll's pattern returns exactly (context, version, file), and no
\* other triple produces the same key.
C21_KeyInvertible ==
    last.op = "match" =>
        /\ last.result.matched
        /\ last.result.contextName = last.contextName
        /\ last.result.version = last.version
        /\ last.result.schemaFile = last.schemaFile
        /\ \A c \in Names, v \in Names, f \in Names :
              KeyChars(c, v, f) = last.key =>
                  c = last.contextName /\ v = last.version /\ f = last.schemaFile

\* C22 as stated: a reader that captured the contextManifests map before a
\* mutation observes the same version entries in the captured map after it.
C22_SnapshotConsistent ==
    reader.captured =>
        \A p \in EntriesOf(reader.contextManifests) :
            ObservedEntry(p) = reader.contextManifests[p.c].versions.at[p.v]

\* the step is the completion of the pending load p
CompletionOf(p) ==
    /\ p \in pending
    /\ pending' = pending \ {p}
    /\ last'.op = "loadSchemaComplete"
    /\ UNCHANGED steps

\* C23: whatever calls and other loads came between its start and its
\* completion, the completion of a successful fetch for key K writes the
\* fetched document into slot K of the cache as it is at that moment and
\* changes no other slot (so no update to another key is lost, K is cached
\* afterwards, and of two loads of one key the one that completes last
\* decides the slot); a failed fetch changes no slot.
C23_LoadWritesOwnSlot ==
    [][\A p \in pending :
          CompletionOf(p) =>
             IF p.path \in DOMAIN ServerFiles
             THEN /\ DOMAIN schemas' = DOMAIN schemas \cup {p.cacheKey}
                  /\ schemas'[p.cacheKey] = ServerFiles[p.path]
                  /\ \A k \in DOMAIN schemas \ {p.cacheKey} : schemas'[k] = schemas[k]
             ELSE schemas' = schemas]_vars

\* C23 witness: two loads of one key were in flight together, both have
\* completed, and the cache holds that key next to another one
C23_Witness ==
    /\ last.op = "loadSchemaComplete"
    /\ last.ok
    /\ last.n = 1
    /\ pending = {}
    /\ last.cacheKey \in DOMAIN schemas
    /\ DOMAIN schemas # {last.cacheKey}

\* C24 as stated: loadAllSchemas never replaces a document that is in the
\* cache at the moment a fetch result is written, also when another
\* operation cached that key while the fetch was pending.
C24_FillsGapsOnly ==
    [][last'.op = "sweepFetched" /\ sweep' # sweep =>
          \A k \in DOMAIN schemas : k \in DOMAIN schemas' /\ schemas'[k] = schemas[k]]_vars

\* C25 as stated: in every state reachable through loadContextRegistry,
\* loadContextManifest, createContext, deleteContext, createVersion,
\* deleteVersion and importFromZip, under every interleaving at their
\* suspension points, every key of contextManifests is a key of the
\* registry's contexts.
C25_ManifestsRegistered ==
    \A c \in DOMAIN contextManifests :
        contextRegistry # NullRegistry /\ c \in DOMAIN contextRegistry.contexts

\* the field's group is unset or the id of a group of the document
GroupResolves(schema, field) ==
    \/ "group" \notin DOMAIN field
    \/ field.group = Undefined
    \/ \E i \in 1..Len(schema.groups) : schema.groups[i].id = field.group

\* C26 as stated: starting from a cached document in which every field's
\* group is unset or the id of one of its groups, every document reached by
\* addGroup, updateGroup, deleteGroup, addField, updateField, deleteField
\* and moveField again has every field's group unset or equal to the id of
\* one of its groups.
C26_NoDanglingGroup ==
    \A k \in DOMAIN schemas :
        \A i \in 1..Len(schemas[k].fields) : GroupResolves(schemas[k], schemas[k].fields[i])

\* the fields of the document the call names, before and after the step
FieldsBefore == schemas[ActiveKey(last'.schemaFile)].fields
FieldsAfter == schemas'[ActiveKey(last'.schemaFile)].fields

\* the call names a cached document
OnCached(op) == CallOf(op) /\ ActiveKey(last'.schemaFile) \in DOMAIN schemas

\* C27: field operations go by id equality and enforce no uniqueness.
\* addField on a cached document appends the field as the last element
\* (the length grows by one) even when a field with the same id exists, and
\* sets activeFieldId to that id; updateField(id, u) puts every key of u
\* into every field whose id equals id and keeps the field's other keys (a
\* system object in u replaces the field's whole); deleteField(id) removes
\* every field whose id equals id; both keep all other fields and their
\* relative order.
C27_FieldsById ==
    [][/\ OnCached("addField") =>
            /\ Len(FieldsAfter) = Len(FieldsBefore) + 1
            /\ FieldsAfter[Len(FieldsAfter)] = last'.field
            /\ SubSeq(FieldsAfter, 1, Len(FieldsBefore)) = FieldsBefore
            /\ activeFieldId' = last'.field.id
       /\ OnCached("updateField") =>
            /\ Len(FieldsAfter) = Len(FieldsBefore)
            /\ \A i \in 1..Len(FieldsBefore) :
                  IF FieldsBefore[i].id = last'.fieldId
                  THEN /\ DOMAIN FieldsAfter[i] = DOMAIN FieldsBefore[i] \cup DOMAIN last'.updates
                       /\ \A k \in DOMAIN last'.updates : FieldsAfter[i][k] = last'.updates[k]
                       /\ \A k \in DOMAIN FieldsBefore[i] \ DOMAIN last'.updates :
                             FieldsAfter[i][k] = FieldsBefore[i][k]
                  ELSE FieldsAfter[i] = FieldsBefore[i]
       /\ OnCached("deleteField") =>
            FieldsAfter = SelectSeq(FieldsBefore, LAMBDA f : f.id # last'.fieldId)]_vars

\* C27 witness: a document with two fields of one id, both of which an
\* updateField gave the update's system object, without the vocabulary one
\* of them had
C27_Witness ==
    /\ last.op = "updateField"
    /\ "system" \in DOMAIN last.updates
    /\ "vocabulary" \notin DOMAIN last.updates.system
    /\ ActiveKey(last.schemaFile) \in DOMAIN schemas
    /\ LET fields == schemas[ActiveKey(last.schemaFile)].fields
           hit == { i \in 1..Len(fields) : fields[i].id = last.fieldId }
       IN /\ Cardinality(hit) = 2
          /\ \A i \in hit : fields[i].system = last.updates.system
          /\ Len(fields) = 3

\* the step is a navigation call or the completion of a load one started
NavigationStep ==
    \/ CallOf("setActiveContext")
    \/ CallOf("setActiveVersion")
    \/ CallOf("setActiveSchema")
    \/ CallOf("setActiveField")
    \/ last'.op = "loadSchemaComplete" /\ pending' # pending

\* C28 as stated: no call of setActiveContext, setActiveVersion,
\* setActiveSchema or setActiveField, including the load it starts once that
\* completes, changes the registry, a manifest, or the content of a document
\* that was already in the schema cache.
C28_NavigationKeepsData ==
    [][NavigationStep =>
          /\ contextRegistry' = contextRegistry
          /\ contextManifests' = contextManifests
          /\ \A k \in DOMAIN schemas : k \in DOMAIN schemas' /\ schemas'[k] = schemas[k]]_vars

\* C29 as stated: createContext(name, ...) leaves the registry entry and the
\* manifest of every context that was already registered unchanged, also
\* when name is already a key of the registry, and the registry keys after
\* the call are the previous ones plus name.
C29_CreateContextFrame ==
    [][CallOf("createContext") /\ Loaded =>
          /\ DOMAIN contextRegistry'.contexts =
                DOMAIN contextRegistry.contexts \cup {last'.contextName}
          /\ \A c \in DOMAIN contextRegistry.contexts :
                /\ contextRegistry'.contexts[c] = contextRegistry.contexts[c]
                /\ c \in DOMAIN contextManifests =>
                      c \in DOMAIN contextManifests' /\ contextManifests'[c] = contextManifests[c]]_vars

\* C30 as stated: createVersion(ctx, v, base) leaves every version entry
\* that ctx's manifest already had, and every document cached for those
\* versions, unchanged, also when v is already a version of ctx; and when
\* base names no version of the manifest the call changes nothing.
C30_CreateVersionFrame ==
    [][CallOf("createVersion") /\ last'.contextName \in DOMAIN contextManifests =>
          LET ctx == last'.contextName
              had == DOMAIN contextManifests[ctx].versions.at
          IN /\ \A w \in had :
                   /\ OHas(contextManifests'[ctx].versions, w)
                   /\ contextManifests'[ctx].versions.at[w] =
                         contextManifests[ctx].versions.at[w]
                   /\ \A f \in FileNames :
                         CacheKey(ctx, w, f) \in DOMAIN schemas =>
                            /\ CacheKey(ctx, w, f) \in DOMAIN schemas'
                            /\ schemas'[CacheKey(ctx, w, f)] = schemas[CacheKey(ctx, w, f)]
             /\ (last'.basedOnVersion # Undefined /\ last'.basedOnVersion \notin had) =>
                   UNCHANGED storeVars]_vars

=============================================================================
